---- MODULE Spec2Model ----
(***************************************************************************)
(* Execution-and-risk core of PolySniper: SniperEngine (core/engine.py),   *)
(* RiskManager (core/risk.py), CircuitBreaker (core/circuit_breaker.py)    *)
(* and the callbacks main.py wires between the breaker and the ledger.     *)
(*                                                                         *)
(* Units: money in cents (amount_usdc 5.0 is 500), prices in hundredths    *)
(* (0.50 is 50), wall-clock time in ticks of the variable now.             *)
(* One step of the model is one run of a coroutine between two suspension  *)
(* points (await) of the asyncio event loop.                               *)
(***************************************************************************)
EXTENDS Integers, Sequences, FiniteSets, TLC

\* ------------------------------------------------------------------ bounds
NumHandlers == 2        \* signal handlers the intake loop creates
MaxTime == 2            \* ticks of wall-clock time
MaxFailures == 0        \* failures recorded beyond failure_threshold
MaxPending == 1         \* breaker callbacks scheduled and not yet run
MaxQueued == 2          \* the same, where the order of callbacks is followed
MaxRepeats == 1         \* failures beyond the threshold, where they are followed

Handlers == 1..NumHandlers
NoTime == -1            \* dict.get() returning None for a timestamp
NoHandler == 0          \* the trade lock is free
NoPnl == -1000000       \* close_position_with_pnl returning None

\* ------------------------------------------------- inputs (small domains)
\* Opportunity values the scanner may put on the queue: two tokens of one
\* market and one token of another market.
Signals ==
    { [token_id |-> "T1", condition_id |-> "M1", outcome |-> "Yes"],
      [token_id |-> "T2", condition_id |-> "M1", outcome |-> "No"],
      [token_id |-> "T3", condition_id |-> "M2", outcome |-> "Yes"] }
NoSignal == [token_id |-> "", condition_id |-> "", outcome |-> ""]

\* polymarket.best_ask: raises ("error"), returns None ("none") or a price
Raised == [st |-> "error", price |-> 0]
RetNone == [st |-> "none", price |-> 0]
Price(p) == [st |-> "ok", price |-> p]
AskResults == {Raised, RetNone, Price(40), Price(50), Price(90)}
\* polymarket.get_balance_usdc
BalanceResults == {400, 1000, 3000}
\* polymarket.get_market_resolution: None ("") or the winning outcome
ResolutionResults == {"", "Yes", "No"}
\* polymarket.best_ask in the monitor
PriceResults == {Raised, RetNone, Price(96), Price(3), Price(20), Price(60)}
\* registered adapters of the breaker in the engine configuration
EngineSources == {"Scanner"}

VARIABLES
    \* RiskManager
    risk_cfg,          \* RiskManager._cfg
    positions,         \* RiskManager._positions (list)
    trade_keys,        \* RiskManager._trade_keys (dict key -> time)
    match_cooldowns,   \* RiskManager._match_cooldowns (dict match_id -> time)
    session_pnl,       \* RiskManager._session_pnl
    halted,            \* RiskManager._halted
    halt_reason,       \* RiskManager._halt_reason
    \* CircuitBreaker
    cb_cfg,            \* CircuitBreaker._cfg
    adapters,          \* CircuitBreaker._adapters (dict name -> AdapterHealth)
    global_halt,       \* CircuitBreaker._global_halt
    cb_tasks,          \* callbacks scheduled by asyncio.ensure_future, FIFO
    \* SniperEngine
    eng_cfg,           \* settings.trading (price band)
    lock_holder,       \* SniperEngine._trade_lock: the handler holding it
    lock_waiters,      \* SniperEngine._trade_lock._waiters, FIFO
    trades,            \* SniperEngine._trades
    pc,                \* per handler: its suspension point
    opp,               \* per handler: the Opportunity it handles
    t0,                \* per handler: local t0 (time handling started)
    ask,               \* per handler: local ask
    slots,             \* per handler: local available_slots
    amount,            \* per handler: local amount
    result,            \* per handler: how handling ended
    calls,             \* per handler: exchange calls it has made
    rejects,           \* per handler: token ids passed to the on_reject hook
    alerts,            \* per handler: send_alert calls
    start_halted,      \* per handler: breaker or ledger halted when it started
    \* position monitor
    mon_pc,            \* suspension point of _check_position_resolutions
    mon_snapshot,      \* local positions
    mon_idx,           \* index of pos in the for loop
    mon_changed,       \* local changed
    mon_pnl,           \* local pnl of the position being processed
    mon_price,         \* local price of the position being processed
    closes,            \* number of positions closed so far
    loss_latched,      \* record_pnl hit the loss limit and no resume() since
    \* environment
    now,               \* time.time() and time.monotonic()
    \* StateStore and the engine's use of it
    state_store,       \* SniperEngine._state_store is not None
    saved,             \* the snapshot in the state file
    saves,             \* StateStore.save calls so far
    store_fails,       \* the state file cannot be written: save raises
    \* main() and SniperEngine.run()
    main_pc,           \* where main() is
    run_pc,            \* where run() is
    order_posted,      \* handlers whose order the executor thread has posted
    \* CircuitBreaker, per-adapter timestamps
    cb_times,          \* AdapterHealth.last_event_time
    since_success,     \* failures recorded since the last record_success
    \* the last operation called on the breaker or the ledger, and its result
    last_op,
    last_ret,
    \* RateLimiter
    rl_cfg,            \* RateLimiter._rate, _burst
    rl_tokens,         \* RateLimiter._tokens
    rl_last_refill,    \* RateLimiter._last_refill
    rl_pc,             \* per caller: its suspension point in acquire()
    rl_wake,           \* per caller: when its asyncio.sleep ends
    rl_calls,          \* RateLimiter._total_calls
    rl_lock,           \* RateLimiter._lock: the caller holding it while suspended
    queue              \* SniperEngine._queue, when its content is followed

risk_vars == <<risk_cfg, positions, trade_keys, match_cooldowns, session_pnl,
               halted, halt_reason, loss_latched, closes>>
ledger_vars == <<positions, trade_keys, match_cooldowns, session_pnl,
                 halted, halt_reason>>
cb_vars == <<cb_cfg, adapters, global_halt, cb_tasks>>
handler_vars == <<pc, opp, t0, ask, slots, amount, result, calls, rejects,
                  alerts, start_halted>>
lock_vars == <<lock_holder, lock_waiters>>
mon_vars == <<mon_pc, mon_snapshot, mon_idx, mon_changed, mon_pnl, mon_price>>
store_vars == <<saved, saves, store_fails>>
sd_vars == <<state_store, main_pc, run_pc, order_posted>>
cbx_vars == <<cb_times, since_success>>
op_vars == <<last_op, last_ret>>
rl_vars == <<rl_cfg, rl_tokens, rl_last_refill, rl_pc, rl_wake, rl_calls,
             rl_lock>>
\* what the engine's handlers and monitor never touch
intake_vars == <<queue>>
other_vars == <<sd_vars, cbx_vars, op_vars, rl_vars, intake_vars>>
engine_vars == <<eng_cfg, lock_vars, trades, handler_vars, mon_vars>>
vars == <<risk_vars, cb_vars, eng_cfg, lock_vars, trades, handler_vars,
          mon_vars, now, store_vars, other_vars>>

\* ===================================================== RiskManager (pure)
\* str.lower() on the identifiers the model uses
Lower(s) ==
    CASE s = "Yes" -> "yes"
      [] s = "No" -> "no"
      [] s = "T1" -> "t1"
      [] s = "T2" -> "t2"
      [] s = "T3" -> "t3"
      [] s = "M1" -> "m1"
      [] s = "M2" -> "m2"
      [] s = "Circuit breaker triggered" -> "circuit breaker triggered"
      [] s = "Session loss limit hit" -> "session loss limit hit"
      [] s = "Operator request" -> "operator request"
      [] OTHER -> s

_dedup_key(token_id, match_id, team) ==
    <<Lower(token_id), Lower(match_id), Lower(team)>>

DedupKeys == { _dedup_key(s.token_id, s.condition_id, s.outcome) : s \in Signals }
MatchIds == { s.condition_id : s \in Signals }

RECURSIVE SumAmounts(_)
SumAmounts(ps) ==
    IF ps = <<>> THEN 0 ELSE Head(ps).amount_usdc + SumAmounts(Tail(ps))

open_positions == Len(positions)
total_exposure == SumAmounts(positions)

\* mutant: no record of recent trade keys is consulted
_check_dedup_NoKeys(token_id, match_id, team) ==
    IF \E i \in 1..Len(positions) : positions[i].token_id = token_id
    THEN "holding_token"
    ELSE IF \E i \in 1..Len(positions) : positions[i].match_id = match_id
    THEN "holding_market"
    ELSE ""

\* mutant: the open-position check looks at the token only
_check_dedup_TokenOnly(token_id, match_id, team) ==
    IF \E i \in 1..Len(positions) : positions[i].token_id = token_id
    THEN "holding_token"
    ELSE LET last_trade == trade_keys[_dedup_key(token_id, match_id, team)]
         IN IF last_trade = NoTime THEN ""
            ELSE IF now - last_trade < risk_cfg.dedup_window_seconds
                 THEN "duplicate"
                 ELSE ""

\* each check returns "" when it passes, else the kind of its veto reason
_check_dedup(token_id, match_id, team) ==
    IF \E i \in 1..Len(positions) : positions[i].token_id = token_id
    THEN "holding_token"
    ELSE IF \E i \in 1..Len(positions) : positions[i].match_id = match_id
    THEN "holding_market"
    ELSE LET last_trade == trade_keys[_dedup_key(token_id, match_id, team)]
         IN IF last_trade = NoTime THEN ""
            ELSE IF now - last_trade < risk_cfg.dedup_window_seconds
                 THEN "duplicate"
                 ELSE ""

\* mutant: the cooldown is dropped once the market has no open Position
_check_cooldown_OpenOnly(match_id) ==
    IF match_id = "" THEN ""
    ELSE IF ~\E i \in 1..Len(positions) : positions[i].match_id = match_id
    THEN ""
    ELSE LET last_trade == match_cooldowns[match_id]
         IN IF last_trade = NoTime THEN ""
            ELSE IF now - last_trade < risk_cfg.match_cooldown_seconds
                 THEN "cooldown"
                 ELSE ""

_check_cooldown(match_id) ==
    IF match_id = "" THEN ""
    ELSE LET last_trade == match_cooldowns[match_id]
         IN IF last_trade = NoTime THEN ""
            ELSE IF now - last_trade < risk_cfg.match_cooldown_seconds
                 THEN "cooldown"
                 ELSE ""

\* mutant: only the total of open positions is limited
_check_position_limits_TotalOnly(game) ==
    IF open_positions >= risk_cfg.max_open_positions THEN "max_open" ELSE ""

_check_position_limits(game) ==
    IF open_positions >= risk_cfg.max_open_positions THEN "max_open"
    ELSE IF Cardinality({ i \in 1..Len(positions) : positions[i].game = game })
              >= risk_cfg.max_positions_per_game
         THEN "max_per_game"
         ELSE ""

\* mutant: the projection leaves out the new amount
_check_exposure_CurrentOnly(amount_usdc) ==
    IF total_exposure > risk_cfg.max_total_exposure_usdc
    THEN "exposure" ELSE ""

_check_exposure(amount_usdc) ==
    IF total_exposure + amount_usdc > risk_cfg.max_total_exposure_usdc
    THEN "exposure" ELSE ""

_check_session_loss ==
    IF session_pnl <= -risk_cfg.max_session_loss_usdc THEN "session_loss" ELSE ""

\* mutant: the position limits are checked before duplicates and cooldown
pre_trade_check_LimitsFirst(token_id, game, team, match_id, amount_usdc) ==
    IF halted THEN "halted"
    ELSE IF _check_position_limits(game) # "" THEN _check_position_limits(game)
    ELSE IF _check_dedup(token_id, match_id, team) # ""
         THEN _check_dedup(token_id, match_id, team)
    ELSE IF _check_cooldown(match_id) # "" THEN _check_cooldown(match_id)
    ELSE IF _check_exposure(amount_usdc) # "" THEN _check_exposure(amount_usdc)
    ELSE _check_session_loss

\* "" is RiskClear, anything else the RiskVeto's reason
pre_trade_check(token_id, game, team, match_id, amount_usdc) ==
    IF halted THEN "halted"
    ELSE IF _check_dedup(token_id, match_id, team) # ""
         THEN _check_dedup(token_id, match_id, team)
    ELSE IF _check_cooldown(match_id) # "" THEN _check_cooldown(match_id)
    ELSE IF _check_position_limits(game) # "" THEN _check_position_limits(game)
    ELSE IF _check_exposure(amount_usdc) # "" THEN _check_exposure(amount_usdc)
    ELSE _check_session_loss


\* ================================================== RiskManager (mutators)
\* PositionRecord built and appended by record_trade, with the dedup key and
\* the market cooldown stamped at the same time.time()
record_trade(token_id, game, team, match_id, amount_usdc, buy_price, condition_id) ==
    /\ positions' = Append(positions,
            [token_id |-> token_id, game |-> game, team |-> team,
             match_id |-> match_id, amount_usdc |-> amount_usdc,
             buy_price |-> buy_price, condition_id |-> condition_id,
             timestamp |-> now])
    /\ trade_keys' = [trade_keys EXCEPT ![_dedup_key(token_id, match_id, team)] = now]
    /\ match_cooldowns' = [match_cooldowns EXCEPT ![match_id] = now]

\* mutant: the loss limit is noticed but trading is not halted
record_pnl_NoHalt(realized_pnl) ==
    /\ session_pnl' = session_pnl + realized_pnl
    /\ loss_latched' = (loss_latched
            \/ session_pnl + realized_pnl <= -risk_cfg.max_session_loss_usdc)
    /\ UNCHANGED <<halted, halt_reason>>

\* record_pnl: add to the session PnL, halt at the loss limit (_halt)
record_pnl(realized_pnl) ==
    /\ session_pnl' = session_pnl + realized_pnl
    /\ IF session_pnl + realized_pnl <= -risk_cfg.max_session_loss_usdc
       THEN /\ halted' = TRUE
            /\ halt_reason' = "Session loss limit hit"
            /\ loss_latched' = TRUE
       ELSE UNCHANGED <<halted, halt_reason, loss_latched>>

HasPosition(token_id) ==
    \E i \in 1..Len(positions) : positions[i].token_id = token_id

\* next(p for p in self._positions if p.token_id == token_id)
FirstPosition(token_id) ==
    positions[CHOOSE i \in 1..Len(positions) :
                /\ positions[i].token_id = token_id
                /\ \A j \in 1..(i - 1) : positions[j].token_id # token_id]

\* mutant: the fee is charged whatever apply_fees says
ClosePnl_FeesAlways(pos, exit_price, apply_fees) ==
    LET gross_pnl == (pos.amount_usdc * exit_price) \div pos.buy_price
                        - pos.amount_usdc
        fees == IF gross_pnl > 0 /\ risk_cfg.fee_rate > 0
                THEN (gross_pnl * risk_cfg.fee_rate) \div 100
                ELSE 0
    IN gross_pnl - fees

\* net PnL of closing pos at exit_price; fee_rate is in percent. The floats of
\* the source are exact on the amounts and prices the model draws.
ClosePnl(pos, exit_price, apply_fees) ==
    LET gross_pnl == (pos.amount_usdc * exit_price) \div pos.buy_price
                        - pos.amount_usdc
        fees == IF apply_fees /\ gross_pnl > 0 /\ risk_cfg.fee_rate > 0
                THEN (gross_pnl * risk_cfg.fee_rate) \div 100
                ELSE 0
    IN gross_pnl - fees

\* close_position_with_pnl for a token that has an open position:
\* close_position removes every position of that token, record_pnl follows
close_position_with_pnl(token_id, exit_price, apply_fees) ==
    /\ HasPosition(token_id)
    /\ positions' = SelectSeq(positions, LAMBDA p : p.token_id # token_id)
    /\ record_pnl(ClosePnl(FirstPosition(token_id), exit_price, apply_fees))
    /\ closes' = closes + 1
    /\ UNCHANGED <<risk_cfg, trade_keys, match_cooldowns>>

\* halt(reason) -> _halt(reason)
halt(reason) ==
    /\ halted' = TRUE
    /\ halt_reason' = reason
    /\ UNCHANGED loss_latched

\* resume()
resume ==
    /\ IF halted
       THEN halted' = FALSE /\ halt_reason' = ""
       ELSE UNCHANGED <<halted, halt_reason>>
    /\ loss_latched' = FALSE

\* to_state_dict: the snapshot StateStore.save writes
to_state_dict ==
    [version |-> 1, timestamp |-> now, session_pnl |-> session_pnl,
     halted |-> halted, halt_reason |-> halt_reason, positions |-> positions,
     trade_keys |-> trade_keys, match_cooldowns |-> match_cooldowns]

\* no state file exists
NoSnapshot ==
    [version |-> 0, timestamp |-> 0, session_pnl |-> 0, halted |-> FALSE,
     halt_reason |-> "", positions |-> <<>>,
     trade_keys |-> [k \in DedupKeys |-> NoTime],
     match_cooldowns |-> [m \in MatchIds |-> NoTime]]

\* "circuit breaker" in s, for the lower-case reasons of the model
ContainsCircuitBreaker(s) == s \in {"circuit breaker triggered"}

\* mutant: a persisted halt is restored whatever its reason
load_state_dict_KeepsHalt(state) ==
    /\ session_pnl' = state.session_pnl
    /\ halted' = state.halted
    /\ halt_reason' = state.halt_reason
    /\ positions' = state.positions
    /\ trade_keys' = state.trade_keys
    /\ match_cooldowns' = state.match_cooldowns

\* load_state_dict: a halt persisted with a circuit-breaker reason is dropped
load_state_dict(state) ==
    /\ session_pnl' = state.session_pnl
    /\ IF state.halted /\ ContainsCircuitBreaker(Lower(state.halt_reason))
       THEN halted' = FALSE /\ halt_reason' = ""
       ELSE halted' = state.halted /\ halt_reason' = state.halt_reason
    /\ positions' = state.positions
    /\ trade_keys' = state.trade_keys
    /\ match_cooldowns' = state.match_cooldowns

\* ========================================================= CircuitBreaker
healthy_count(ad) ==
    Cardinality({ a \in DOMAIN ad : ad[a].state = "CLOSED" })

\* mutant: a halt is scheduled whenever too few sources are healthy, whether
\* or not the breaker is halted already
_evaluate_global_state_Level(ad) ==
    IF healthy_count(ad) < cb_cfg.min_healthy_adapters
    THEN /\ global_halt' = TRUE
         /\ cb_tasks' = Append(cb_tasks, "on_halt")
    ELSE IF global_halt
    THEN /\ global_halt' = FALSE
         /\ cb_tasks' = Append(cb_tasks, "on_resume")
    ELSE UNCHANGED <<global_halt, cb_tasks>>

\* mutant: the global halt is never cleared
_evaluate_global_state_NoResume(ad) ==
    IF ~global_halt /\ healthy_count(ad) < cb_cfg.min_healthy_adapters
    THEN /\ global_halt' = TRUE
         /\ cb_tasks' = Append(cb_tasks, "on_halt")
    ELSE UNCHANGED <<global_halt, cb_tasks>>

\* _evaluate_global_state over the health map ad: the new _global_halt and
\* the callback it schedules
_evaluate_global_state(ad) ==
    IF ~global_halt /\ healthy_count(ad) < cb_cfg.min_healthy_adapters
    THEN /\ global_halt' = TRUE
         /\ cb_tasks' = Append(cb_tasks, "on_halt")
    ELSE IF global_halt /\ healthy_count(ad) >= cb_cfg.min_healthy_adapters
    THEN /\ global_halt' = FALSE
         /\ cb_tasks' = Append(cb_tasks, "on_resume")
    ELSE UNCHANGED <<global_halt, cb_tasks>>

\* mutant: an Open source is only moved to HalfOpen, a HalfOpen one is closed
record_success_TwoStep(a) ==
    /\ a \in DOMAIN adapters
    /\ Len(cb_tasks) < MaxPending
    /\ IF adapters[a].state = "OPEN"
       THEN /\ adapters' = [adapters EXCEPT ![a].state = "HALF_OPEN"]
            /\ UNCHANGED <<global_halt, cb_tasks>>
       ELSE IF adapters[a].state = "HALF_OPEN"
       THEN /\ adapters' = [adapters EXCEPT ![a] =
                    [state |-> "CLOSED", consecutive_failures |-> 0]]
            /\ _evaluate_global_state(adapters')
       ELSE UNCHANGED <<adapters, global_halt, cb_tasks>>
    /\ UNCHANGED cb_cfg

\* record_success: an Open source goes to HalfOpen and, in the same call, a
\* HalfOpen source to Closed
record_success(a) ==
    /\ a \in DOMAIN adapters
    /\ LET s1 == IF adapters[a].state = "OPEN"
                 THEN "HALF_OPEN" ELSE adapters[a].state
       IN IF s1 = "HALF_OPEN"
          THEN /\ adapters' = [adapters EXCEPT ![a] =
                       [state |-> "CLOSED", consecutive_failures |-> 0]]
               /\ _evaluate_global_state(adapters')
          ELSE UNCHANGED <<adapters, global_halt, cb_tasks>>
    /\ UNCHANGED cb_cfg

\* mutant: a failure at the threshold opens a HalfOpen source as well
record_failure_ReopensHalfOpen(a) ==
    /\ a \in DOMAIN adapters
    /\ LET n == adapters[a].consecutive_failures + 1
       IN IF /\ adapters[a].state \in {"CLOSED", "HALF_OPEN"}
             /\ n >= cb_cfg.failure_threshold
          THEN /\ adapters' = [adapters EXCEPT ![a] =
                        [state |-> "OPEN", consecutive_failures |-> n]]
               /\ _evaluate_global_state(adapters')
          ELSE /\ adapters' = [adapters EXCEPT ![a].consecutive_failures = n]
               /\ UNCHANGED <<global_halt, cb_tasks>>
    /\ UNCHANGED cb_cfg

\* record_failure: the counter goes up, a Closed source at the threshold
\* opens and the global state is evaluated
record_failure(a) ==
    /\ a \in DOMAIN adapters
    /\ LET n == adapters[a].consecutive_failures + 1
       IN IF adapters[a].state = "CLOSED" /\ n >= cb_cfg.failure_threshold
          THEN /\ adapters' = [adapters EXCEPT ![a] =
                        [state |-> "OPEN", consecutive_failures |-> n]]
               /\ _evaluate_global_state(adapters')
          ELSE /\ adapters' = [adapters EXCEPT ![a].consecutive_failures = n]
               /\ UNCHANGED <<global_halt, cb_tasks>>
    /\ UNCHANGED cb_cfg

\* a fresh AdapterHealth
NewHealth == [state |-> "CLOSED", consecutive_failures |-> 0]

\* register: the source gets a fresh AdapterHealth (the global state is not
\* evaluated)
register(a) ==
    /\ adapters' = [b \in DOMAIN adapters \cup {a} |->
                        IF b = a THEN NewHealth ELSE adapters[b]]
    /\ UNCHANGED <<cb_cfg, global_halt, cb_tasks>>

\* mutant: a heartbeat counts as a success of the source
record_heartbeat_AsSuccess(a) ==
    /\ a \in DOMAIN adapters
    /\ Len(cb_tasks) < MaxPending
    /\ IF adapters[a].state # "CLOSED"
       THEN /\ adapters' = [adapters EXCEPT ![a] =
                    [state |-> "CLOSED", consecutive_failures |-> 0]]
            /\ _evaluate_global_state(adapters')
       ELSE UNCHANGED <<adapters, global_halt, cb_tasks>>
    /\ UNCHANGED cb_cfg

\* record_heartbeat: only last_event_time is written
record_heartbeat(a) ==
    /\ a \in DOMAIN adapters
    /\ UNCHANGED cb_vars

\* record_reconnect
record_reconnect(a) ==
    /\ a \in DOMAIN adapters
    /\ IF adapters[a].state = "OPEN"
       THEN adapters' = [adapters EXCEPT ![a].state = "HALF_OPEN"]
       ELSE UNCHANGED adapters
    /\ UNCHANGED <<cb_cfg, global_halt, cb_tasks>>

\* mutant: a source is stale as soon as the timeout is reached
Stale_AtTimeout ==
    { a \in DOMAIN adapters :
        /\ adapters[a].state = "CLOSED"
        /\ now - cb_times[a] >= cb_cfg.stale_data_timeout }

\* the sources check_stale finds stale
Stale ==
    { a \in DOMAIN adapters :
        /\ adapters[a].state = "CLOSED"
        /\ now - cb_times[a] > cb_cfg.stale_data_timeout }

\* check_stale (called by monitor_loop)
check_stale ==
    /\ adapters' = [a \in DOMAIN adapters |->
                        IF a \in Stale
                        THEN [adapters[a] EXCEPT !.state = "OPEN"]
                        ELSE adapters[a]]
    /\ IF Stale # {}
       THEN _evaluate_global_state(adapters')
       ELSE UNCHANGED <<global_halt, cb_tasks>>
    /\ UNCHANGED cb_cfg

\* main.py _on_halt / _on_resume, run by the event loop in scheduling order
RunCallback ==
    /\ cb_tasks # <<>>
    /\ IF Head(cb_tasks) = "on_halt"
       THEN halt("Circuit breaker triggered")
       ELSE resume
    /\ cb_tasks' = Tail(cb_tasks)
    /\ UNCHANGED <<risk_cfg, positions, trade_keys, match_cooldowns, session_pnl,
                   closes, cb_cfg, adapters, global_halt>>
    /\ UNCHANGED <<eng_cfg, lock_vars, trades, handler_vars, mon_vars, now>>
    /\ UNCHANGED <<store_vars, other_vars>>


\* ============================================================= OrderSizer
\* SizingConfig with its default values; money in cents, probabilities,
\* fractions and weights in hundredths.  The floats of the code are
\* fixed-point numbers here, rounded to 1/10000 and to the cent.
SizingModes == {"fixed", "confidence", "kelly"}
SizingConfig(mode) ==
    [mode |-> mode, base_size |-> 5000, min_order |-> 1000,
     max_order |-> 20000, kelly_fraction |-> 25, kelly_win_prob |-> 90,
     confidence_score_weight |-> 60, confidence_edge_weight |-> 40]
\* fuzzy scores a signal may carry
Scores == {0, 50, 100}

\* n / d rounded to the nearest integer (n >= 0, d > 0)
RoundDiv(n, d) == (2 * n + d) \div (2 * d)

\* base_size * (0.5 + combined), combined being the weighted mean of
\* score_factor = min(fuzzy_score / 100, 1) and of the clamped edge_factor
\* = (max_buy_price - ask_price) / max_buy_price
_confidence(cfg, fuzzy_score, ask_price, max_buy_price) ==
    LET score == IF fuzzy_score < 100 THEN fuzzy_score ELSE 100
        edge == IF max_buy_price - ask_price < 0 THEN 0
                ELSE IF ask_price < 0 THEN max_buy_price
                ELSE max_buy_price - ask_price
        w_score == cfg.confidence_score_weight
        w_edge == cfg.confidence_edge_weight
        total_weight == w_score + w_edge
        \* combined, in 1/10000
        combined ==
            IF total_weight > 0 /\ max_buy_price > 0
            THEN RoundDiv(100 * (w_score * score * max_buy_price
                                   + w_edge * 100 * edge),
                          total_weight * max_buy_price)
            ELSE IF total_weight > 0
            THEN RoundDiv(100 * w_score * score, total_weight)
            ELSE 5000
    IN  RoundDiv(cfg.base_size * (5000 + combined), 10000)

\* base_size * f * kelly_fraction * 4, f = (p*b - q) / b, b = 1/ask - 1
_kelly(cfg, ask_price) ==
    LET p == cfg.kelly_win_prob
        q == 100 - p
        num == p * (100 - ask_price) - q * ask_price
    IN  IF ask_price <= 0 \/ ask_price >= 100 THEN cfg.base_size
        ELSE IF num <= 0 THEN cfg.min_order
        ELSE LET kelly_f == RoundDiv(100 * num, 100 - ask_price)  \* 1/10000
             IN RoundDiv(RoundDiv(cfg.base_size * kelly_f, 10000)
                           * cfg.kelly_fraction * 4, 100)

\* OrderSizer.compute: the policy's size clamped to [min_order, max_order]
compute(cfg, fuzzy_score, ask_price, max_buy_price) ==
    LET size == IF cfg.mode = "confidence"
                THEN _confidence(cfg, fuzzy_score, ask_price, max_buy_price)
                ELSE IF cfg.mode = "kelly" THEN _kelly(cfg, ask_price)
                ELSE cfg.base_size
        capped == IF size < cfg.max_order THEN size ELSE cfg.max_order
    IN  IF capped > cfg.min_order THEN capped ELSE cfg.min_order

\* =========================================================== SniperEngine
\* _reject(opp.token_id): the on_reject hook is called with the token
Reject(h) == rejects' = [rejects EXCEPT ![h] = Append(@, opp[h].token_id)]

\* the locals t0, ask, available_slots and amount of handler h
SetLocals(h, t, a, sl, am) ==
    /\ t0' = [t0 EXCEPT ![h] = t]
    /\ ask' = [ask EXCEPT ![h] = a]
    /\ slots' = [slots EXCEPT ![h] = sl]
    /\ amount' = [amount EXCEPT ![h] = am]

\* handling ends: the coroutine returns and its locals are gone
Finish(h, why) ==
    /\ pc' = [pc EXCEPT ![h] = "done"]
    /\ result' = [result EXCEPT ![h] = why]
    /\ SetLocals(h, 0, 0, 0, 0)

\* _save_state: StateStore.save(risk) writes the snapshot state, when the
\* engine has a state store; an exception of save is logged and swallowed
_save_state(state) ==
    /\ UNCHANGED store_fails
    /\ IF state_store
       THEN /\ saves' = saves + 1
            /\ saved' = IF store_fails THEN saved ELSE state
       ELSE UNCHANGED <<saved, saves>>

\* mutant: the trade lock never makes a handler wait
LockFree_NoLock == TRUE

\* asyncio.Lock.acquire without waiting: the lock is free and nobody queues
LockFree == lock_holder = NoHandler /\ lock_waiters = <<>>

\* run(): asyncio.create_task(self._handle_opportunity(opp)); run() goes
\* back to queue.get() without awaiting the task.  Handlers are numbered in
\* the order the intake loop creates them.
CreateHandler(h, s) ==
    /\ run_pc = "get"
    /\ pc[h] = "idle"
    /\ \A g \in Handlers : g < h => pc[g] # "idle"
    /\ pc' = [pc EXCEPT ![h] = "start"]
    /\ opp' = [opp EXCEPT ![h] = s]
    /\ UNCHANGED <<t0, ask, slots, amount, result, calls, rejects, alerts,
                   start_halted>>
    /\ UNCHANGED <<risk_vars, cb_vars, eng_cfg, lock_vars, trades,
                   mon_vars, now>>
    /\ UNCHANGED <<store_vars, sd_vars, cbx_vars, op_vars, rl_vars>>

\* run(): opp = await queue.get() returns the signal s
Dispatch(h, s) ==
    /\ CreateHandler(h, s)
    /\ UNCHANGED intake_vars

\* mutant: only the breaker's halt is looked at before the exchange is called
HandlerStart_BreakerOnly(h) ==
    /\ pc[h] = "start"
    /\ start_halted' = [start_halted EXCEPT ![h] = global_halt \/ halted]
    /\ IF global_halt
       THEN /\ Reject(h)
            /\ Finish(h, "blocked_cb")
            /\ UNCHANGED calls
       ELSE /\ pc' = [pc EXCEPT ![h] = "best_ask"]
            /\ SetLocals(h, now, 0, 0, 0)
            /\ calls' = [calls EXCEPT ![h] = @ \cup {"best_ask"}]
            /\ UNCHANGED <<result, rejects>>
    /\ UNCHANGED <<opp, alerts>>
    /\ UNCHANGED <<risk_vars, cb_vars, eng_cfg, lock_vars, trades,
                   mon_vars, now>>
    /\ UNCHANGED <<store_vars, other_vars>>

\* _handle_opportunity up to its first await: the two halt checks, then the
\* call of polymarket.best_ask
HandlerStart(h) ==
    /\ pc[h] = "start"
    /\ start_halted' = [start_halted EXCEPT ![h] = global_halt \/ halted]
    /\ IF global_halt
       THEN /\ Reject(h)
            /\ Finish(h, "blocked_cb")
            /\ UNCHANGED calls
       ELSE IF halted
       THEN /\ Reject(h)
            /\ Finish(h, "blocked_risk")
            /\ UNCHANGED calls
       ELSE /\ pc' = [pc EXCEPT ![h] = "best_ask"]
            /\ SetLocals(h, now, 0, 0, 0)
            /\ calls' = [calls EXCEPT ![h] = @ \cup {"best_ask"}]
            /\ UNCHANGED <<result, rejects>>
    /\ UNCHANGED <<opp, alerts>>
    /\ UNCHANGED <<risk_vars, cb_vars, eng_cfg, lock_vars, trades,
                   mon_vars, now>>
    /\ UNCHANGED <<store_vars, other_vars>>

\* mutant: the handler goes on without becoming the holder of the lock
LockedEntry_NotHeld(h, a, waiters) ==
    /\ SetLocals(h, t0[h], a, risk_cfg.max_open_positions - open_positions, 0)
    /\ calls' = [calls EXCEPT ![h] = @ \cup {"get_balance"}]
    /\ pc' = [pc EXCEPT ![h] = "balance"]
    /\ lock_holder' = NoHandler
    /\ lock_waiters' = waiters
    /\ UNCHANGED <<result, rejects>>

\* the first lines under the lock, up to the await of get_balance_usdc
LockedEntry(h, a, waiters) ==
    LET available_slots == risk_cfg.max_open_positions - open_positions
    IN IF available_slots <= 0
       THEN /\ Reject(h)
            /\ Finish(h, "no_slots")
            /\ lock_holder' = NoHandler
            /\ lock_waiters' = waiters
            /\ UNCHANGED calls
       ELSE /\ SetLocals(h, t0[h], a, available_slots, 0)
            /\ calls' = [calls EXCEPT ![h] = @ \cup {"get_balance"}]
            /\ pc' = [pc EXCEPT ![h] = "balance"]
            /\ lock_holder' = h
            /\ lock_waiters' = waiters
            /\ UNCHANGED <<result, rejects>>

\* best_ask returns or raises: the price band, then async with _trade_lock
BestAskReturn(h, r) ==
    /\ pc[h] = "best_ask"
    /\ IF r.st = "error"
       THEN /\ Reject(h) /\ Finish(h, "clob_error")
            /\ UNCHANGED <<calls, lock_vars>>
       ELSE IF r.st = "none"
       THEN /\ Reject(h) /\ Finish(h, "empty_book")
            /\ UNCHANGED <<calls, lock_vars>>
       ELSE IF r.price < eng_cfg.min_buy_price
       THEN /\ Reject(h) /\ Finish(h, "below_min")
            /\ UNCHANGED <<calls, lock_vars>>
       ELSE IF r.price > eng_cfg.max_buy_price
       THEN /\ Reject(h) /\ Finish(h, "above_max")
            /\ UNCHANGED <<calls, lock_vars>>
       ELSE IF LockFree
       THEN LockedEntry(h, r.price, lock_waiters)
       ELSE /\ lock_waiters' = Append(lock_waiters, h)
            /\ pc' = [pc EXCEPT ![h] = "lock"]
            /\ SetLocals(h, t0[h], r.price, 0, 0)
            /\ UNCHANGED <<lock_holder, calls, result, rejects>>
    /\ UNCHANGED <<opp, alerts, start_halted>>
    /\ UNCHANGED <<risk_vars, cb_vars, eng_cfg, trades, mon_vars, now>>
    /\ UNCHANGED <<store_vars, other_vars>>

\* the first waiter of a released lock resumes and takes it
LockAcquired(h) ==
    /\ pc[h] = "lock"
    /\ lock_holder = NoHandler
    /\ lock_waiters # <<>>
    /\ Head(lock_waiters) = h
    /\ LockedEntry(h, ask[h], Tail(lock_waiters))
    /\ UNCHANGED <<opp, alerts, start_halted>>
    /\ UNCHANGED <<risk_vars, cb_vars, eng_cfg, trades, mon_vars, now>>
    /\ UNCHANGED <<store_vars, other_vars>>

\* round(balance / available_slots, 2), then max(5.0, amount)
Sizing(balance, available_slots) ==
    LET rounded == (2 * balance + available_slots) \div (2 * available_slots)
    IN IF rounded < 500 THEN 500 ELSE rounded

\* mutant: a risk veto returns with the trade lock still held
BalanceReturn_VetoKeepsLock(h, balance) ==
    /\ pc[h] = "balance"
    /\ IF balance < 500
       THEN /\ Reject(h) /\ Finish(h, "low_balance")
            /\ lock_holder' = NoHandler
            /\ UNCHANGED calls
       ELSE LET amt == Sizing(balance, slots[h])
                decision == pre_trade_check(opp[h].token_id, "market",
                                opp[h].outcome, opp[h].condition_id, amt)
            IN IF decision # ""
               THEN /\ Finish(h, decision)
                    /\ UNCHANGED <<lock_holder, calls, rejects>>
               ELSE /\ pc' = [pc EXCEPT ![h] = "buy"]
                    /\ SetLocals(h, t0[h], ask[h], slots[h], amt)
                    /\ calls' = [calls EXCEPT ![h] = @ \cup {"market_buy"}]
                    /\ UNCHANGED <<lock_holder, result, rejects>>
    /\ UNCHANGED <<opp, alerts, start_halted, lock_waiters>>
    /\ UNCHANGED <<risk_vars, cb_vars, eng_cfg, trades, mon_vars, now>>
    /\ UNCHANGED <<store_vars, other_vars>>

\* get_balance_usdc returns: sizing, pre_trade_check, call of market_buy
BalanceReturn(h, balance) ==
    /\ pc[h] = "balance"
    /\ IF balance < 500
       THEN /\ Reject(h) /\ Finish(h, "low_balance")
            /\ lock_holder' = NoHandler
            /\ UNCHANGED calls
       ELSE LET amt == Sizing(balance, slots[h])
                decision == pre_trade_check(opp[h].token_id, "market",
                                opp[h].outcome, opp[h].condition_id, amt)
            IN IF decision # ""
               THEN /\ Finish(h, decision)
                    /\ lock_holder' = NoHandler
                    /\ UNCHANGED <<calls, rejects>>
               ELSE /\ pc' = [pc EXCEPT ![h] = "buy"]
                    /\ SetLocals(h, t0[h], ask[h], slots[h], amt)
                    /\ calls' = [calls EXCEPT ![h] = @ \cup {"market_buy"}]
                    /\ UNCHANGED <<lock_holder, result, rejects>>
    /\ UNCHANGED <<opp, alerts, start_halted, lock_waiters>>
    /\ UNCHANGED <<risk_vars, cb_vars, eng_cfg, trades, mon_vars, now>>
    /\ UNCHANGED <<store_vars, other_vars>>

\* a TradeRecord of _trades (the fields the ledger determines)
TradeInfo(h, ps) ==
    [team |-> opp[h].outcome, ask_price |-> ask[h], amount |-> amount[h],
     open_positions |-> Len(ps), total_exposure |-> SumAmounts(ps)]

\* mutant: _save_state has no try/except, an exception of save ends the
\* handler's task after record_trade and the release of the lock
BuyReturn_SaveUnprotected(h) ==
    /\ pc[h] = "buy"
    /\ record_trade(opp[h].token_id, "market", opp[h].outcome,
                    opp[h].condition_id, amount[h], ask[h], opp[h].condition_id)
    /\ lock_holder' = NoHandler
    /\ IF state_store /\ store_fails
       THEN /\ pc' = [pc EXCEPT ![h] = "done"]
            /\ result' = [result EXCEPT ![h] = "crashed"]
            /\ UNCHANGED <<trades, alerts>>
       ELSE /\ trades' = Append(trades, TradeInfo(h, positions'))
            /\ pc' = [pc EXCEPT ![h] = "fill_alert"]
            /\ result' = [result EXCEPT ![h] = "committed"]
            /\ alerts' = [alerts EXCEPT ![h] = @ + 1]
    /\ SetLocals(h, 0, 0, 0, 0)
    /\ UNCHANGED <<opp, calls, rejects, start_halted, lock_waiters>>
    /\ UNCHANGED <<risk_cfg, session_pnl, halted, halt_reason, loss_latched,
                   closes, cb_vars, eng_cfg, mon_vars, now>>
    /\ _save_state(to_state_dict')
    /\ UNCHANGED other_vars

\* market_buy returns: record_trade under the lock, release, _save_state,
\* append the TradeRecord, then the await of the fill alert (the locals are
\* not read after it)
BuyReturn(h) ==
    /\ pc[h] = "buy"
    /\ record_trade(opp[h].token_id, "market", opp[h].outcome,
                    opp[h].condition_id, amount[h], ask[h], opp[h].condition_id)
    /\ lock_holder' = NoHandler
    /\ trades' = Append(trades, TradeInfo(h, positions'))
    /\ pc' = [pc EXCEPT ![h] = "fill_alert"]
    /\ result' = [result EXCEPT ![h] = "committed"]
    /\ SetLocals(h, 0, 0, 0, 0)
    /\ alerts' = [alerts EXCEPT ![h] = @ + 1]
    /\ UNCHANGED <<opp, calls, rejects, start_halted, lock_waiters>>
    /\ UNCHANGED <<risk_cfg, session_pnl, halted, halt_reason, loss_latched,
                   closes, cb_vars, eng_cfg, mon_vars, now>>
    /\ _save_state(to_state_dict')
    /\ UNCHANGED other_vars

\* send_alert of the fill returns: the handler is finished
FillAlertReturn(h) ==
    /\ pc[h] = "fill_alert"
    /\ pc' = [pc EXCEPT ![h] = "done"]
    /\ UNCHANGED <<opp, t0, ask, slots, amount, result, calls, rejects, alerts,
                   start_halted>>
    /\ UNCHANGED <<risk_vars, cb_vars, eng_cfg, lock_vars, trades,
                   mon_vars, now>>
    /\ UNCHANGED <<store_vars, other_vars>>

\* mutant: the failed order leaves its dedup key and cooldown stamped
BuyRaise_Stamps(h) ==
    /\ pc[h] = "buy"
    /\ pc' = [pc EXCEPT ![h] = "fail_alert"]
    /\ alerts' = [alerts EXCEPT ![h] = @ + 1]
    /\ trade_keys' = [trade_keys EXCEPT
            ![_dedup_key(opp[h].token_id, opp[h].condition_id, opp[h].outcome)] = now]
    /\ match_cooldowns' = [match_cooldowns EXCEPT ![opp[h].condition_id] = now]
    /\ UNCHANGED <<opp, t0, ask, slots, amount, result, calls, rejects,
                   start_halted>>
    /\ UNCHANGED <<risk_cfg, positions, session_pnl, halted, halt_reason,
                   loss_latched, closes>>
    /\ UNCHANGED <<cb_vars, eng_cfg, lock_vars, trades, mon_vars, now>>
    /\ UNCHANGED <<store_vars, other_vars>>

\* market_buy raises: the except branch up to its await of send_alert
BuyRaise(h) ==
    /\ pc[h] = "buy"
    /\ pc' = [pc EXCEPT ![h] = "fail_alert"]
    /\ alerts' = [alerts EXCEPT ![h] = @ + 1]
    /\ UNCHANGED <<opp, t0, ask, slots, amount, result, calls, rejects,
                   start_halted>>
    /\ UNCHANGED <<risk_vars, cb_vars, eng_cfg, lock_vars, trades,
                   mon_vars, now>>
    /\ UNCHANGED <<store_vars, other_vars>>

\* the failure alert returns: _reject, return, the lock is released
FailAlertReturn(h) ==
    /\ pc[h] = "fail_alert"
    /\ Reject(h)
    /\ Finish(h, "order_failed")
    /\ lock_holder' = NoHandler
    /\ UNCHANGED <<opp, calls, alerts, start_halted, lock_waiters>>
    /\ UNCHANGED <<risk_vars, cb_vars, eng_cfg, trades, mon_vars, now>>
    /\ UNCHANGED <<store_vars, other_vars>>

\* ======================================================= position monitor
\* the top of the for loop body for position i of the snapshot: the await of
\* get_market_resolution when the position has a condition_id, else best_ask
LoopEntry(snapshot, i) ==
    IF snapshot[i].condition_id # "" THEN "resolution" ELSE "price"

\* the loop moves to the next position (pnl and price are per-iteration
\* locals), or ends: _save_state if changed, and _monitor_positions sleeps
MonitorAdvance(changed) ==
    /\ mon_pnl' = 0
    /\ mon_price' = 0
    /\ IF mon_idx < Len(mon_snapshot)
       THEN /\ mon_idx' = mon_idx + 1
            /\ mon_pc' = LoopEntry(mon_snapshot, mon_idx + 1)
            /\ mon_changed' = changed
            /\ UNCHANGED <<mon_snapshot, store_vars>>
       ELSE /\ mon_idx' = 0
            /\ mon_pc' = "sleep"
            /\ mon_changed' = FALSE
            /\ mon_snapshot' = <<>>
            /\ IF changed
               THEN _save_state(to_state_dict)
               ELSE UNCHANGED store_vars

\* close_position_with_pnl as the monitor calls it, then the await of the
\* alert (_claimer is None, main.py builds the engine without one); a return
\* of None (no such position) sends the loop on as the source does for
\* pnl is None
MonitorClose(token_id, exit_price, apply_fees, if_none) ==
    IF HasPosition(token_id)
    THEN /\ close_position_with_pnl(token_id, exit_price, apply_fees)
         /\ mon_pnl' = ClosePnl(FirstPosition(token_id), exit_price, apply_fees)
         /\ mon_price' = 0
         /\ mon_changed' = TRUE
         /\ mon_pc' = "alert"
         /\ UNCHANGED <<mon_idx, mon_snapshot, store_vars>>
    ELSE /\ UNCHANGED risk_vars
         /\ IF if_none = "price"
            THEN /\ mon_pc' = "price"
                 /\ UNCHANGED <<mon_idx, mon_snapshot, mon_changed, mon_pnl,
                                mon_price, store_vars>>
            ELSE MonitorAdvance(mon_changed)

\* asyncio.sleep ends: _check_position_resolutions starts a pass over a copy
\* of the open positions (with none open it returns at once)
MonitorWake ==
    /\ mon_pc = "sleep"
    /\ positions # <<>>
    /\ mon_snapshot' = positions
    /\ mon_idx' = 1
    /\ mon_changed' = FALSE
    /\ mon_pc' = LoopEntry(positions, 1)
    /\ UNCHANGED <<mon_pnl, mon_price>>
    /\ UNCHANGED <<risk_vars, cb_vars, eng_cfg, lock_vars, trades,
                   handler_vars, now>>
    /\ UNCHANGED <<store_vars, other_vars>>

\* get_market_resolution returns outcome ("" for None)
MonitorResolution(outcome) ==
    /\ mon_pc = "resolution"
    /\ IF outcome # ""
       THEN MonitorClose(mon_snapshot[mon_idx].token_id,
                         IF Lower(outcome) = "yes" THEN 100 ELSE 0, TRUE, "price")
       ELSE /\ mon_pc' = "price"
            /\ UNCHANGED <<risk_vars, mon_pnl, mon_price, mon_idx,
                           mon_snapshot, mon_changed, store_vars>>
    /\ UNCHANGED <<cb_vars, eng_cfg, lock_vars, trades, handler_vars, now>>
    /\ UNCHANGED other_vars

\* _should_stop_loss; stop_loss_pct is in percent
_should_stop_loss(pos, current_price) ==
    /\ risk_cfg.stop_loss_pct > 0
    /\ current_price * 100 < pos.buy_price * (100 - risk_cfg.stop_loss_pct)

\* mutant: a failed price fetch ends the pass, the positions after it are
\* not examined
MonitorPrice_ErrorEndsPass(r) ==
    /\ mon_pc = "price"
    /\ LET pos == mon_snapshot[mon_idx]
       IN IF r.st = "error"
          THEN /\ mon_idx' = 0
               /\ mon_pc' = "sleep"
               /\ mon_changed' = FALSE
               /\ mon_snapshot' = <<>>
               /\ mon_pnl' = 0
               /\ mon_price' = 0
               /\ UNCHANGED <<risk_vars, store_vars>>
          ELSE IF r.st # "ok"
          THEN /\ MonitorAdvance(mon_changed)
               /\ UNCHANGED risk_vars
          ELSE IF r.price >= 95
          THEN MonitorClose(pos.token_id, 100, TRUE, "next")
          ELSE IF r.price <= 5
          THEN MonitorClose(pos.token_id, 0, TRUE, "next")
          ELSE IF _should_stop_loss(pos, r.price)
          THEN /\ mon_pc' = "sell"
               /\ mon_price' = r.price
               /\ UNCHANGED <<risk_vars, mon_pnl, mon_idx, mon_snapshot,
                              mon_changed, store_vars>>
          ELSE /\ MonitorAdvance(mon_changed)
               /\ UNCHANGED risk_vars
    /\ UNCHANGED <<cb_vars, eng_cfg, lock_vars, trades, handler_vars, now>>
    /\ UNCHANGED other_vars

\* mutant: the stop-loss rule is tried before the two price thresholds
MonitorPrice_StopLossFirst(r) ==
    /\ mon_pc = "price"
    /\ LET pos == mon_snapshot[mon_idx]
       IN IF r.st # "ok"
          THEN /\ MonitorAdvance(mon_changed)
               /\ UNCHANGED risk_vars
          ELSE IF _should_stop_loss(pos, r.price)
          THEN /\ mon_pc' = "sell"
               /\ mon_price' = r.price
               /\ UNCHANGED <<risk_vars, mon_pnl, mon_idx, mon_snapshot,
                              mon_changed, store_vars>>
          ELSE IF r.price >= 95
          THEN MonitorClose(pos.token_id, 100, TRUE, "next")
          ELSE IF r.price <= 5
          THEN MonitorClose(pos.token_id, 0, TRUE, "next")
          ELSE /\ MonitorAdvance(mon_changed)
               /\ UNCHANGED risk_vars
    /\ UNCHANGED <<cb_vars, eng_cfg, lock_vars, trades, handler_vars, now>>
    /\ UNCHANGED other_vars

\* best_ask returns or raises for the position of the loop
MonitorPrice(r) ==
    /\ mon_pc = "price"
    /\ LET pos == mon_snapshot[mon_idx]
       IN IF r.st # "ok"
          THEN /\ MonitorAdvance(mon_changed)
               /\ UNCHANGED risk_vars
          ELSE IF r.price >= 95
          THEN MonitorClose(pos.token_id, 100, TRUE, "next")
          ELSE IF r.price <= 5
          THEN MonitorClose(pos.token_id, 0, TRUE, "next")
          ELSE IF _should_stop_loss(pos, r.price)
          THEN /\ mon_pc' = "sell"
               /\ mon_price' = r.price
               /\ UNCHANGED <<risk_vars, mon_pnl, mon_idx, mon_snapshot,
                              mon_changed, store_vars>>
          ELSE /\ MonitorAdvance(mon_changed)
               /\ UNCHANGED risk_vars
    /\ UNCHANGED <<cb_vars, eng_cfg, lock_vars, trades, handler_vars, now>>
    /\ UNCHANGED other_vars

\* _execute_stop_loss: market_sell returns (ok), and the position is closed
\* at the price that triggered the sale without fees; or it raises, and
\* _execute_stop_loss awaits send_alert before it returns None
MonitorSell(ok) ==
    /\ mon_pc = "sell"
    /\ IF ok
       THEN MonitorClose(mon_snapshot[mon_idx].token_id, mon_price, FALSE, "next")
       ELSE /\ mon_pc' = "sell_alert"
            /\ UNCHANGED <<risk_vars, mon_pnl, mon_price, mon_idx,
                           mon_snapshot, mon_changed, store_vars>>
    /\ UNCHANGED <<cb_vars, eng_cfg, lock_vars, trades, handler_vars, now>>
    /\ UNCHANGED other_vars

\* send_alert of a failed stop-loss sale returns (or raises, which the
\* except of the loop body swallows): pnl is None and the loop goes on
MonitorSellAlertReturn ==
    /\ mon_pc = "sell_alert"
    /\ MonitorAdvance(mon_changed)
    /\ UNCHANGED <<risk_vars, cb_vars, eng_cfg, lock_vars, trades,
                   handler_vars, now>>
    /\ UNCHANGED other_vars

\* _alert_position_closed returns
MonitorAlertReturn ==
    /\ mon_pc = "alert"
    /\ MonitorAdvance(mon_changed)
    /\ UNCHANGED <<risk_vars, cb_vars, eng_cfg, lock_vars, trades,
                   handler_vars, now>>
    /\ UNCHANGED other_vars

\* ============================================================ environment
Tick ==
    /\ now < MaxTime
    /\ now' = now + 1
    /\ UNCHANGED <<risk_vars, cb_vars, eng_cfg, lock_vars, trades,
                   handler_vars, mon_vars>>
    /\ UNCHANGED <<store_vars, other_vars>>

AdapterSuccess(a) ==
    /\ Len(cb_tasks) < MaxPending
    /\ record_success(a)
    /\ UNCHANGED <<risk_vars, eng_cfg, lock_vars, trades, handler_vars,
                   mon_vars, now>>
    /\ UNCHANGED <<store_vars, other_vars>>

AdapterFailure(a) ==
    /\ Len(cb_tasks) < MaxPending
    /\ a \in DOMAIN adapters
    /\ adapters[a].consecutive_failures < cb_cfg.failure_threshold + MaxFailures
    /\ record_failure(a)
    /\ UNCHANGED <<risk_vars, eng_cfg, lock_vars, trades, handler_vars,
                   mon_vars, now>>
    /\ UNCHANGED <<store_vars, other_vars>>

\* ============================================ initial states of the parts
\* the breaker of the engine: one registered source, open at its first failure
InitBreaker ==
    /\ cb_cfg = [failure_threshold |-> 1, min_healthy_adapters |-> 1,
                 stale_data_timeout |-> 1]
    /\ adapters = [a \in EngineSources |->
                      [state |-> "CLOSED", consecutive_failures |-> 0]]
    /\ global_halt = FALSE
    /\ cb_tasks = <<>>

\* SniperEngine.__init__ and a monitor in its first sleep
InitEngine ==
    /\ eng_cfg = [min_buy_price |-> 50, max_buy_price |-> 85]
    /\ lock_holder = NoHandler
    /\ lock_waiters = <<>>
    /\ trades = <<>>
    /\ pc = [h \in Handlers |-> "idle"]
    /\ opp = [h \in Handlers |-> NoSignal]
    /\ t0 = [h \in Handlers |-> 0]
    /\ ask = [h \in Handlers |-> 0]
    /\ slots = [h \in Handlers |-> 0]
    /\ amount = [h \in Handlers |-> 0]
    /\ result = [h \in Handlers |-> ""]
    /\ calls = [h \in Handlers |-> {}]
    /\ rejects = [h \in Handlers |-> <<>>]
    /\ alerts = [h \in Handlers |-> 0]
    /\ start_halted = [h \in Handlers |-> FALSE]
    /\ mon_pc = "sleep"
    /\ mon_snapshot = <<>>
    /\ mon_idx = 0
    /\ mon_changed = FALSE
    /\ mon_pnl = 0
    /\ mon_price = 0

\* RiskManager.__init__ with the configuration cfg
InitRisk(cfg) ==
    /\ risk_cfg = cfg
    /\ positions = <<>>
    /\ trade_keys = [k \in DedupKeys |-> NoTime]
    /\ match_cooldowns = [m \in MatchIds |-> NoTime]
    /\ session_pnl = 0
    /\ halted = FALSE
    /\ halt_reason = ""
    /\ loss_latched = FALSE
    /\ closes = 0

\* the operation last called, with its arguments
Op(op, arg, price, flag) == [op |-> op, arg |-> arg, price |-> price, flag |-> flag]
NoOp == Op("", "", 0, FALSE)

\* SniperEngine(queue, risk, circuit_breaker) built without a state store
InitNoStore ==
    /\ state_store = FALSE
    /\ saved = NoSnapshot
    /\ saves = 0
    /\ store_fails = FALSE

\* main() is in asyncio.gather and run() in its intake loop
InitNotShutDown ==
    /\ main_pc = "gather"
    /\ run_pc = "get"
    /\ order_posted = {}

\* the content of the signal queue is not followed: queue.get() returns
\* whatever the scanner has put
InitNoQueue ==
    queue = <<>>

\* timestamps and call history of the breaker and the ledger are not followed
InitNoTimestamps ==
    /\ cb_times = <<>>
    /\ since_success = <<>>
    /\ last_op = NoOp
    /\ last_ret = 0

\* no rate limiter is followed
InitNoLimiter ==
    /\ rl_cfg = [rate |-> 0, burst |-> 0]
    /\ rl_tokens = 0
    /\ rl_last_refill = 0
    /\ rl_pc = <<>>
    /\ rl_wake = <<>>
    /\ rl_calls = 0
    /\ rl_lock = 0

\* ============================================== the breaker, called directly
\* the adapters main() builds
Sources == {"LoL", "Valorant", "Dota2"}

\* what a step of the breaker leaves alone
BreakerFrame ==
    UNCHANGED <<risk_vars, engine_vars, store_vars, sd_vars, rl_vars, intake_vars, op_vars>>

\* AdapterHealth.last_event_time of source a becomes t
Stamp(a, t) ==
    cb_times' = [b \in DOMAIN cb_times \cup {a} |->
                    IF b = a THEN t ELSE cb_times[b]]

\* failures recorded for source a since its last record_success become n
Count(a, n) ==
    since_success' = [b \in DOMAIN since_success \cup {a} |->
                         IF b = a THEN n ELSE since_success[b]]

CbRegister(a) ==
    /\ register(a)
    /\ Stamp(a, now)
    /\ Count(a, 0)
    /\ UNCHANGED now
    /\ BreakerFrame

CbSuccess(a) ==
    /\ Len(cb_tasks) < MaxPending
    /\ record_success(a)
    /\ Stamp(a, now)
    /\ Count(a, 0)
    /\ UNCHANGED now
    /\ BreakerFrame

CbFailure(a) ==
    /\ Len(cb_tasks) < MaxPending
    /\ a \in DOMAIN adapters
    /\ adapters[a].consecutive_failures < cb_cfg.failure_threshold + MaxFailures
    /\ record_failure(a)
    /\ Count(a, since_success[a] + 1)
    /\ UNCHANGED <<cb_times, now>>
    /\ BreakerFrame

CbHeartbeat(a) ==
    /\ record_heartbeat(a)
    /\ Stamp(a, now)
    /\ UNCHANGED <<since_success, now>>
    /\ BreakerFrame

CbReconnect(a) ==
    /\ record_reconnect(a)
    /\ UNCHANGED <<cb_times, since_success, now>>
    /\ BreakerFrame

CbCheckStale ==
    /\ Len(cb_tasks) < MaxPending
    /\ check_stale
    /\ UNCHANGED <<cb_times, since_success, now>>
    /\ BreakerFrame

\* mutant: the event loop runs the callback scheduled last
CbCallback_LastFirst ==
    /\ cb_tasks # <<>>
    /\ IF cb_tasks[Len(cb_tasks)] = "on_halt"
       THEN halt("Circuit breaker triggered")
       ELSE resume
    /\ cb_tasks' = SubSeq(cb_tasks, 1, Len(cb_tasks) - 1)
    /\ UNCHANGED <<risk_cfg, positions, trade_keys, match_cooldowns, session_pnl,
                   closes, cb_cfg, adapters, global_halt>>
    /\ UNCHANGED <<engine_vars, store_vars, sd_vars, rl_vars, intake_vars, op_vars,
                   cb_times, since_success, now>>

\* the event loop runs the callback scheduled first
CbCallback ==
    /\ cb_tasks # <<>>
    /\ IF Head(cb_tasks) = "on_halt"
       THEN halt("Circuit breaker triggered")
       ELSE resume
    /\ cb_tasks' = Tail(cb_tasks)
    /\ UNCHANGED <<risk_cfg, positions, trade_keys, match_cooldowns, session_pnl,
                   closes, cb_cfg, adapters, global_halt>>
    /\ UNCHANGED <<engine_vars, store_vars, sd_vars, rl_vars, intake_vars, op_vars,
                   cb_times, since_success, now>>

CbTick ==
    /\ now < MaxTime
    /\ now' = now + 1
    /\ UNCHANGED <<cb_vars, cb_times, since_success>>
    /\ BreakerFrame

\* CircuitBreaker(config, on_halt, on_resume) with no source registered yet
InitCB ==
    /\ InitRisk([max_open_positions |-> 2, max_positions_per_game |-> 2,
                 max_session_loss_usdc |-> 500,
                 max_total_exposure_usdc |-> 2000,
                 match_cooldown_seconds |-> 1, dedup_window_seconds |-> 2,
                 fee_rate |-> 0, stop_loss_pct |-> 50])
    /\ cb_cfg = [failure_threshold |-> 2, min_healthy_adapters |-> 2,
                 stale_data_timeout |-> 1]
    /\ adapters = <<>>
    /\ global_halt = FALSE
    /\ cb_tasks = <<>>
    /\ InitEngine
    /\ now = 0
    /\ InitNoStore
    /\ InitNotShutDown
    /\ InitNoTimestamps
    /\ InitNoLimiter
    /\ InitNoQueue

NextCB ==
    \/ \E a \in Sources : CbRegister(a)
    \/ \E a \in Sources : CbSuccess(a)
    \/ \E a \in Sources : CbFailure(a)
    \/ \E a \in Sources : CbHeartbeat(a)
    \/ \E a \in Sources : CbReconnect(a)
    \/ CbCheckStale
    \/ CbCallback
    \/ CbTick

SpecCB == InitCB /\ [][NextCB]_vars

\* =============================================== the ledger, called directly
\* inputs of the ledger's operations
LedgerSignals == { s \in Signals : s.outcome = "Yes" }
TradeAmounts == {1000}
BuyPrices == {50, 80}
ExitPrices == {0, 40, 100}
FeeRates == {0, 20}
HaltReasons == {"Circuit breaker triggered", "Operator request"}

\* what a step of the ledger leaves alone
LedgerFrame ==
    UNCHANGED <<cb_vars, engine_vars, store_vars, sd_vars, cbx_vars, rl_vars, intake_vars>>

\* pre_trade_check returns RiskClear and record_trade follows, as in the
\* engine
LedgerTrade(s, amt, price) ==
    /\ pre_trade_check(s.token_id, "market", s.outcome, s.condition_id, amt) = ""
    /\ record_trade(s.token_id, "market", s.outcome, s.condition_id, amt, price,
                    s.condition_id)
    /\ last_op' = Op("record_trade", s.token_id, price, FALSE)
    /\ UNCHANGED <<risk_cfg, session_pnl, halted, halt_reason, loss_latched,
                   closes, last_ret, now>>
    /\ LedgerFrame

\* close_position_with_pnl(token_id, exit_price, apply_fees=...) and the
\* value it returns
LedgerClose(token_id, exit_price, apply_fees) ==
    /\ close_position_with_pnl(token_id, exit_price, apply_fees)
    /\ last_ret' = ClosePnl(FirstPosition(token_id), exit_price, apply_fees)
    /\ last_op' = Op("close", token_id, exit_price, apply_fees)
    /\ UNCHANGED now
    /\ LedgerFrame

\* mutant: a token without Position is booked as a close with a PnL of 0
LedgerCloseMissing_BooksZero(token_id, exit_price, apply_fees) ==
    /\ ~HasPosition(token_id)
    /\ record_pnl(0)
    /\ last_ret' = NoPnl
    /\ last_op' = Op("close_none", token_id, exit_price, apply_fees)
    /\ UNCHANGED <<risk_cfg, positions, trade_keys, match_cooldowns, closes,
                   now>>
    /\ LedgerFrame

\* close_position_with_pnl for a token that has no open Position: pos is
\* None and the function returns None at once
LedgerCloseMissing(token_id, exit_price, apply_fees) ==
    /\ ~HasPosition(token_id)
    /\ last_ret' = NoPnl
    /\ last_op' = Op("close_none", token_id, exit_price, apply_fees)
    /\ UNCHANGED <<risk_vars, now>>
    /\ LedgerFrame

LedgerHalt(reason) ==
    /\ halt(reason)
    /\ last_op' = Op("halt", reason, 0, FALSE)
    /\ UNCHANGED <<risk_cfg, positions, trade_keys, match_cooldowns,
                   session_pnl, closes, last_ret, now>>
    /\ LedgerFrame

LedgerResume ==
    /\ resume
    /\ last_op' = Op("resume", "", 0, FALSE)
    /\ UNCHANGED <<risk_cfg, positions, trade_keys, match_cooldowns,
                   session_pnl, closes, last_ret, now>>
    /\ LedgerFrame

\* the snapshot of the ledger is loaded into a fresh RiskManager of the same
\* configuration, which takes the ledger's place
LedgerRestart ==
    /\ load_state_dict(to_state_dict)
    /\ loss_latched' = FALSE
    /\ last_op' = Op("restart", "", 0, FALSE)
    /\ UNCHANGED <<risk_cfg, closes, last_ret, now>>
    /\ LedgerFrame

LedgerTick ==
    /\ now < MaxTime
    /\ now' = now + 1
    /\ last_op' = Op("tick", "", 0, FALSE)
    /\ UNCHANGED <<risk_vars, last_ret>>
    /\ LedgerFrame

\* max_open_positions and max_positions_per_game below the number of
\* signals
LimitConfigs == { <<1, 1>>, <<2, 1>> }

\* fee rate, max_open_positions and max_positions_per_game of the ledger
LedgerConfigs ==
    { <<f, 2, 2>> : f \in FeeRates } \cup { <<0, c[1], c[2]>> : c \in LimitConfigs }

\* a RiskManager of some fee rate and limits, nothing else running
InitLedger ==
    /\ risk_cfg \in { [max_open_positions |-> c[2],
                       max_positions_per_game |-> c[3],
                       max_session_loss_usdc |-> 500,
                       max_total_exposure_usdc |-> 2000,
                       match_cooldown_seconds |-> 1, dedup_window_seconds |-> 2,
                       fee_rate |-> c[1], stop_loss_pct |-> 50] :
                      c \in LedgerConfigs }
    /\ InitRisk(risk_cfg)
    /\ InitBreaker
    /\ InitEngine
    /\ now = 0
    /\ InitNoStore
    /\ InitNotShutDown
    /\ InitNoTimestamps
    /\ InitNoLimiter
    /\ InitNoQueue

NextLedger ==
    \/ \E s \in LedgerSignals, amt \in TradeAmounts, price \in BuyPrices :
            LedgerTrade(s, amt, price)
    \/ \E s \in LedgerSignals, x \in ExitPrices, f \in BOOLEAN :
            LedgerClose(s.token_id, x, f)
    \/ \E s \in LedgerSignals : LedgerCloseMissing(s.token_id, 100, TRUE)
    \/ \E r \in HaltReasons : LedgerHalt(r)
    \/ LedgerResume
    \/ LedgerRestart
    \/ LedgerTick

SpecLedger == InitLedger /\ [][NextLedger]_vars

\* ==================================== the breaker's callbacks, queued up
\* The breaker and the ledger with up to MaxQueued callbacks scheduled and
\* not yet run: a source can fail and recover before the event loop runs
\* the callback of the first edge.  Sources go on failing after they have
\* opened, and reconnect.
QueuedSuccess(a) ==
    /\ Len(cb_tasks) < MaxQueued
    /\ record_success(a)
    /\ Stamp(a, now)
    /\ Count(a, 0)
    /\ UNCHANGED now
    /\ BreakerFrame

QueuedFailure(a) ==
    /\ Len(cb_tasks) < MaxQueued
    /\ a \in DOMAIN adapters
    /\ adapters[a].consecutive_failures < cb_cfg.failure_threshold + MaxRepeats
    /\ record_failure(a)
    /\ Count(a, since_success[a] + 1)
    /\ UNCHANGED <<cb_times, now>>
    /\ BreakerFrame

NextCallbacks ==
    \/ \E a \in Sources : CbRegister(a)
    \/ \E a \in Sources : QueuedSuccess(a)
    \/ \E a \in Sources : QueuedFailure(a)
    \/ \E a \in Sources : CbReconnect(a)
    \/ CbCallback

SpecCallbacks == InitCB /\ [][NextCallbacks]_vars

\* ================================================ the state file at boot
\* main() loads the state file into the fresh RiskManager before anything
\* else uses it.  A file is missing, is not JSON, or holds a JSON object
\* whose positions are well formed or not.
PositionFields ==
    {"token_id", "game", "team", "match_id", "amount_usdc", "buy_price",
     "condition_id", "timestamp"}
RequiredFields == PositionFields \ {"condition_id", "timestamp"}

\* PositionRecord(**p) accepts p
WellFormed(p) ==
    RequiredFields \subseteq DOMAIN p /\ DOMAIN p \subseteq PositionFields

GoodPosition ==
    [token_id |-> "T1", game |-> "market", team |-> "Yes", match_id |-> "M1",
     amount_usdc |-> 1000, buy_price |-> 50, condition_id |-> "M1",
     timestamp |-> 0]
BadPosition == [token_id |-> "T1"]

FileHalts ==
    { <<FALSE, "">>, <<TRUE, "Session loss limit hit">>,
      <<TRUE, "Circuit breaker triggered">> }

StateFiles ==
    { [kind |-> k, state |-> NoSnapshot] : k \in {"missing", "invalid_json"} }
    \cup
    { [kind |-> "object",
       state |-> [version |-> 1, timestamp |-> 0, session_pnl |-> p,
                  halted |-> h[1], halt_reason |-> h[2], positions |-> ps,
                  trade_keys |-> [k \in DedupKeys |->
                        IF ps # <<>> /\ k = _dedup_key("T1", "M1", "Yes")
                        THEN 0 ELSE NoTime],
                  match_cooldowns |-> [m \in MatchIds |->
                        IF ps # <<>> /\ m = "M1" THEN 0 ELSE NoTime]]] :
        p \in {0, -600}, h \in FileHalts,
        ps \in {<<>>, <<GoodPosition>>, <<BadPosition>>} }

\* StateStore.load(risk): False (last_ret 0) for a missing file and for
\* JSONDecodeError, KeyError or TypeError, else True (1).  load_state_dict
\* assigns session PnL and halt first and builds the positions after them, so
\* the TypeError of a malformed position comes after those assignments.
load(file) ==
    IF file.kind # "object"
    THEN /\ last_ret' = 0
         /\ UNCHANGED <<session_pnl, halted, halt_reason, positions,
                        trade_keys, match_cooldowns>>
    ELSE IF \A i \in 1..Len(file.state.positions) :
                WellFormed(file.state.positions[i])
    THEN /\ load_state_dict(file.state)
         /\ last_ret' = 1
    ELSE /\ session_pnl' = file.state.session_pnl
         /\ IF /\ file.state.halted
               /\ ContainsCircuitBreaker(Lower(file.state.halt_reason))
            THEN halted' = FALSE /\ halt_reason' = ""
            ELSE /\ halted' = file.state.halted
                 /\ halt_reason' = file.state.halt_reason
         /\ last_ret' = 0
         /\ UNCHANGED <<positions, trade_keys, match_cooldowns>>

\* main(): state_store.load(risk) on the RiskManager just built
StoreLoad(file) ==
    /\ last_op = NoOp
    /\ load(file)
    /\ last_op' = Op("load", file.kind, 0, FALSE)
    /\ UNCHANGED <<risk_cfg, loss_latched, closes, now>>
    /\ LedgerFrame

InitLoad ==
    /\ InitRisk([max_open_positions |-> 2, max_positions_per_game |-> 2,
                 max_session_loss_usdc |-> 500,
                 max_total_exposure_usdc |-> 2000,
                 match_cooldown_seconds |-> 1, dedup_window_seconds |-> 2,
                 fee_rate |-> 0, stop_loss_pct |-> 50])
    /\ InitBreaker
    /\ InitEngine
    /\ now = 0
    /\ InitNoStore
    /\ InitNotShutDown
    /\ InitNoTimestamps
    /\ InitNoLimiter
    /\ InitNoQueue

NextLoad ==
    \/ \E f \in StateFiles : StoreLoad(f)
    \/ \E s \in LedgerSignals, amt \in TradeAmounts, price \in BuyPrices :
            LedgerTrade(s, amt, price)
    \/ \E s \in LedgerSignals, x \in ExitPrices, f \in BOOLEAN :
            LedgerClose(s.token_id, x, f)
    \/ LedgerTick

SpecLoad == InitLoad /\ [][NextLoad]_vars

\* ============================================== the limiter, called directly
\* RateLimiter alone, called by NumCallers concurrent coroutines.  _tokens
\* is a float in the code; here it is counted in 1/TokenUnit of a token and
\* the rate in those units per tick, so that every refill is exact.
NumCallers == 3
Callers == 1..NumCallers
TokenUnit == 2
Rates == {1, 2}         \* _rate, in 1/TokenUnit token per tick
Bursts == {1, 2}        \* _burst, in tokens

RlFrame ==
    UNCHANGED <<risk_vars, cb_vars, engine_vars, store_vars, sd_vars,
                cbx_vars, op_vars, intake_vars>>

\* _refill(): the token count after crediting the time since _last_refill
_refill ==
    LET elapsed == now - rl_last_refill
        credited == rl_tokens + elapsed * rl_cfg.rate
        cap == rl_cfg.burst * TokenUnit
    IN  IF credited < cap THEN credited ELSE cap

\* asyncio.sleep(deficit / rate) ends at the first tick not before its term
wait_time(deficit) ==
    (deficit + rl_cfg.rate - 1) \div rl_cfg.rate

\* asyncio.Lock() unlocked
NoCaller == 0

\* acquire() with its sleep moved inside the "async with self._lock" block
RlAcquire_SleepsUnderLock(c) ==
    /\ rl_pc[c] = "idle"
    /\ rl_lock = NoCaller
    /\ rl_last_refill' = now
    /\ IF _refill >= TokenUnit
       THEN /\ rl_tokens' = _refill - TokenUnit
            /\ rl_calls' = rl_calls + 1
            /\ UNCHANGED <<rl_pc, rl_wake, rl_lock>>
       ELSE /\ rl_tokens' = _refill
            /\ rl_pc' = [rl_pc EXCEPT ![c] = "sleep"]
            /\ rl_wake' = [rl_wake EXCEPT
                             ![c] = now + wait_time(TokenUnit - _refill)]
            /\ rl_lock' = c
            /\ UNCHANGED rl_calls
    /\ UNCHANGED <<rl_cfg, now>>
    /\ RlFrame

\* acquire() up to its return or its await asyncio.sleep: the first
\* "async with self._lock" block holds no await, so it is one step that
\* finds the lock free and leaves it free, the sleep coming after the block
RlAcquire(c) ==
    /\ rl_pc[c] = "idle"
    /\ rl_lock = NoCaller
    /\ rl_last_refill' = now
    /\ IF _refill >= TokenUnit
       THEN /\ rl_tokens' = _refill - TokenUnit
            /\ rl_calls' = rl_calls + 1
            /\ UNCHANGED <<rl_pc, rl_wake>>
       ELSE /\ rl_tokens' = _refill
            /\ rl_pc' = [rl_pc EXCEPT ![c] = "sleep"]
            /\ rl_wake' = [rl_wake EXCEPT
                             ![c] = now + wait_time(TokenUnit - _refill)]
            /\ UNCHANGED rl_calls
    /\ UNCHANGED <<rl_cfg, now, rl_lock>>
    /\ RlFrame

\* acquire() from the end of its sleep to its return: the second
\* "async with self._lock" block, again without an await
RlWake(c) ==
    /\ rl_pc[c] = "sleep"
    /\ now >= rl_wake[c]
    /\ rl_lock = NoCaller
    /\ rl_last_refill' = now
    /\ rl_tokens' = IF _refill - TokenUnit > 0 THEN _refill - TokenUnit ELSE 0
    /\ rl_calls' = rl_calls + 1
    /\ rl_pc' = [rl_pc EXCEPT ![c] = "idle"]
    /\ UNCHANGED <<rl_cfg, rl_wake, now, rl_lock>>
    /\ RlFrame

RlTick ==
    /\ now < MaxTime
    /\ now' = now + 1
    /\ UNCHANGED rl_vars
    /\ RlFrame

\* RateLimiter(rate, burst) just constructed, no caller inside acquire()
InitRL ==
    /\ InitRisk([max_open_positions |-> 2, max_positions_per_game |-> 2,
                 max_session_loss_usdc |-> 500,
                 max_total_exposure_usdc |-> 2000,
                 match_cooldown_seconds |-> 1, dedup_window_seconds |-> 2,
                 fee_rate |-> 0, stop_loss_pct |-> 50])
    /\ InitBreaker
    /\ InitEngine
    /\ now = 0
    /\ InitNoStore
    /\ InitNotShutDown
    /\ InitNoTimestamps
    /\ rl_cfg \in { [rate |-> r, burst |-> b] : r \in Rates, b \in Bursts }
    /\ rl_tokens = rl_cfg.burst * TokenUnit
    /\ rl_last_refill = now
    /\ rl_pc = [c \in Callers |-> "idle"]
    /\ rl_wake = [c \in Callers |-> 0]
    /\ rl_calls = 0
    /\ rl_lock = NoCaller
    /\ InitNoQueue

NextRL ==
    \/ \E c \in Callers : RlAcquire(c)
    \/ \E c \in Callers : RlWake(c)
    \/ RlTick

SpecRL == InitRL /\ [][NextRL]_vars

\* The limiter with time that passes.  asyncio resumes a coroutine whose
\* sleep has ended and runs a coroutine that is ready, hence the weak
\* fairness of each caller's wake-up and of the clock; a call is begun only
\* when its sleep, if it needs one, ends within the MaxTime ticks followed.
RlEnter(c) ==
    /\ RlAcquire(c)
    /\ rl_pc'[c] = "sleep" => rl_wake'[c] <= MaxTime

NextRLFair ==
    \/ \E c \in Callers : RlEnter(c)
    \/ \E c \in Callers : RlWake(c)
    \/ RlTick

SpecRLFair ==
    /\ InitRL
    /\ [][NextRLFair]_vars
    /\ WF_vars(RlTick)
    /\ \A c \in Callers : WF_vars(RlWake(c))

\* ================================================================ shutdown
\* main() with a StateStore, from the running bot to the end of asyncio.run.
\* The exchange answers are taken from smaller sets than in the engine
\* specification, the engine's handlers and monitor are the same actions.
ShutdownSignals == { s \in Signals : s.token_id = "T1" }
ShutdownAsks == {Price(50)}
ShutdownBalances == {1000}
ShutdownResolutions == {"", "Yes"}
ShutdownPrices == {Price(20), Price(60)}

\* StateStore.save(risk), called by main() itself
save ==
    /\ saved' = to_state_dict
    /\ saves' = saves + 1
    /\ UNCHANGED store_fails

\* the thread of run_in_executor posts the order of handler h; the handler
\* is resumed with the answer later, or never
OrderPosted(h) ==
    /\ pc[h] = "buy"
    /\ h \notin order_posted
    /\ order_posted' = order_posted \cup {h}
    /\ UNCHANGED <<state_store, main_pc, run_pc>>
    /\ UNCHANGED <<risk_vars, cb_vars, engine_vars, now, store_vars,
                   cbx_vars, op_vars, rl_vars, intake_vars>>

\* _shutdown(), the handler of SIGINT and SIGTERM: save, stop the adapters,
\* cancel the tasks of the adapters, of run() and of the breaker's monitor
ShutdownSignal ==
    /\ main_pc = "gather"
    /\ run_pc = "get"
    /\ save
    /\ run_pc' = "cancelling"
    /\ UNCHANGED <<state_store, main_pc, order_posted>>
    /\ UNCHANGED <<risk_vars, cb_vars, engine_vars, now, cbx_vars, op_vars,
                   rl_vars, intake_vars>>

\* mutant: run() saves and returns without cancelling the monitor
RunCancelled_MonitorLeft ==
    /\ run_pc = "cancelling"
    /\ _save_state(to_state_dict)
    /\ run_pc' = "stopped"
    /\ UNCHANGED <<state_store, main_pc, order_posted>>
    /\ UNCHANGED <<risk_vars, cb_vars, engine_vars, now, cbx_vars, op_vars,
                   rl_vars, intake_vars>>

\* run() receives CancelledError in queue.get(): monitor_task.cancel(),
\* _save_state(), return.  The monitor is suspended in an await and takes no
\* step between cancel() and the CancelledError it is resumed with.
RunCancelled ==
    /\ run_pc = "cancelling"
    /\ mon_pc' = "cancelled"
    /\ _save_state(to_state_dict)
    /\ run_pc' = "stopped"
    /\ UNCHANGED <<state_store, main_pc, order_posted>>
    /\ UNCHANGED <<mon_snapshot, mon_idx, mon_changed, mon_pnl, mon_price>>
    /\ UNCHANGED <<risk_vars, cb_vars, eng_cfg, lock_vars, trades,
                   handler_vars, now, cbx_vars, op_vars, rl_vars, intake_vars>>

\* asyncio.gather returns once every task of `tasks` has ended; main() goes
\* on to await dashboard_runner.cleanup().  Callbacks the breaker scheduled
\* before the signal have run by then (the ready queue is FIFO).
GatherDone ==
    /\ main_pc = "gather"
    /\ run_pc = "stopped"
    /\ cb_tasks = <<>>
    /\ main_pc' = "cleanup"
    /\ UNCHANGED <<state_store, run_pc, order_posted>>
    /\ UNCHANGED <<risk_vars, cb_vars, engine_vars, now, store_vars,
                   cbx_vars, op_vars, rl_vars, intake_vars>>

\* dashboard_runner.cleanup() returns: the last save, main() returns
CleanupReturn ==
    /\ main_pc = "cleanup"
    /\ save
    /\ main_pc' = "returned"
    /\ UNCHANGED <<state_store, run_pc, order_posted>>
    /\ UNCHANGED <<risk_vars, cb_vars, engine_vars, now, cbx_vars, op_vars,
                   rl_vars, intake_vars>>

\* asyncio.run cancels the tasks still alive, the handlers: each gets
\* CancelledError at its await (except Exception does not catch it), the
\* lock is released by __aexit__, the process exits
Teardown ==
    /\ main_pc = "returned"
    /\ main_pc' = "exited"
    /\ pc' = [h \in Handlers |->
                IF pc[h] \in {"idle", "done"} THEN pc[h] ELSE "cancelled"]
    /\ lock_holder' = NoHandler
    /\ lock_waiters' = <<>>
    /\ UNCHANGED <<opp, t0, ask, slots, amount, result, calls, rejects,
                   alerts, start_halted>>
    /\ UNCHANGED <<state_store, run_pc, order_posted>>
    /\ UNCHANGED <<risk_vars, cb_vars, eng_cfg, trades, mon_vars, now,
                   store_vars, cbx_vars, op_vars, rl_vars, intake_vars>>

\* the bot of main(): engine, monitor and breaker running, state store set
InitShutdown ==
    /\ InitRisk([max_open_positions |-> 2, max_positions_per_game |-> 2,
                 max_session_loss_usdc |-> 500,
                 max_total_exposure_usdc |-> 2000,
                 match_cooldown_seconds |-> 1, dedup_window_seconds |-> 2,
                 fee_rate |-> 0, stop_loss_pct |-> 50])
    /\ InitBreaker
    /\ InitEngine
    /\ now = 0
    /\ state_store = TRUE
    /\ saved = NoSnapshot
    /\ saves = 0
    /\ store_fails = FALSE
    /\ InitNotShutDown
    /\ InitNoTimestamps
    /\ InitNoLimiter
    /\ InitNoQueue

\* the posted order's answer resumes the handler
OrderAnswered(h) ==
    /\ h \in order_posted
    /\ BuyReturn(h)

\* create_and_post_order raises in its thread: nothing was posted
OrderRefused(h) ==
    /\ h \notin order_posted
    /\ BuyRaise(h)

\* an adapter's emit() or exception handler; adapters end with the signal
FeedSuccess(a) ==
    /\ run_pc = "get"
    /\ AdapterSuccess(a)

FeedFailure(a) ==
    /\ run_pc = "get"
    /\ AdapterFailure(a)

NextShutdown ==
    \/ \E h \in Handlers, s \in ShutdownSignals : Dispatch(h, s)
    \/ \E h \in Handlers : HandlerStart(h)
    \/ \E h \in Handlers, r \in ShutdownAsks : BestAskReturn(h, r)
    \/ \E h \in Handlers : LockAcquired(h)
    \/ \E h \in Handlers, b \in ShutdownBalances : BalanceReturn(h, b)
    \/ \E h \in Handlers : OrderPosted(h)
    \/ \E h \in Handlers : OrderAnswered(h)
    \/ \E h \in Handlers : OrderRefused(h)
    \/ \E h \in Handlers : FailAlertReturn(h)
    \/ \E h \in Handlers : FillAlertReturn(h)
    \/ MonitorWake
    \/ \E o \in ShutdownResolutions : MonitorResolution(o)
    \/ \E r \in ShutdownPrices : MonitorPrice(r)
    \/ \E ok \in BOOLEAN : MonitorSell(ok)
    \/ MonitorSellAlertReturn
    \/ MonitorAlertReturn
    \/ RunCallback
    \/ \E a \in EngineSources : FeedSuccess(a)
    \/ \E a \in EngineSources : FeedFailure(a)
    \/ ShutdownSignal
    \/ RunCancelled
    \/ GatherDone
    \/ CleanupReturn
    \/ Teardown
    \/ Tick

SpecShutdown == InitShutdown /\ [][NextShutdown]_vars

\* ========================================================= the intake loop
\* run() and its handlers with the content of the queue followed.  The
\* producer puts no more signals than the model has handlers for.
IntakeSignals == { s \in Signals : s.outcome = "Yes" }
IntakeAsks == {Raised, Price(50)}
IntakeBalances == {1000}

IntakeFrame ==
    UNCHANGED <<risk_vars, cb_vars, engine_vars, now, store_vars, sd_vars,
                cbx_vars, op_vars, rl_vars>>

\* the producer's queue.put(opp) on the unbounded asyncio.Queue
Put(s) ==
    /\ Len(queue) + Cardinality({ h \in Handlers : pc[h] # "idle" })
          < NumHandlers
    /\ queue' = Append(queue, s)
    /\ IntakeFrame

\* mutant: run() awaits the handler it has created before the next get()
Intake_AwaitsHandler(h) ==
    /\ queue # <<>>
    /\ \A g \in Handlers : pc[g] \in {"idle", "done"}
    /\ CreateHandler(h, Head(queue))
    /\ queue' = Tail(queue)

\* run(): queue.get() returns the oldest signal, create_task for it
Intake(h) ==
    /\ queue # <<>>
    /\ CreateHandler(h, Head(queue))
    /\ queue' = Tail(queue)

\* one turn of the while loop of run()
IntakeStep == \E h \in Handlers : Intake(h)

InitIntake ==
    /\ InitRisk([max_open_positions |-> 2, max_positions_per_game |-> 2,
                 max_session_loss_usdc |-> 500,
                 max_total_exposure_usdc |-> 2000,
                 match_cooldown_seconds |-> 1, dedup_window_seconds |-> 2,
                 fee_rate |-> 0, stop_loss_pct |-> 50])
    /\ InitBreaker
    /\ InitEngine
    /\ now = 0
    /\ InitNoStore
    /\ InitNotShutDown
    /\ InitNoTimestamps
    /\ InitNoLimiter
    /\ InitNoQueue

NextIntake ==
    \/ \E s \in IntakeSignals : Put(s)
    \/ IntakeStep
    \/ \E h \in Handlers : HandlerStart(h)
    \/ \E h \in Handlers, r \in IntakeAsks : BestAskReturn(h, r)
    \/ \E h \in Handlers : LockAcquired(h)
    \/ \E h \in Handlers, b \in IntakeBalances : BalanceReturn(h, b)
    \/ \E h \in Handlers : BuyReturn(h)
    \/ \E h \in Handlers : BuyRaise(h)
    \/ \E h \in Handlers : FailAlertReturn(h)
    \/ \E h \in Handlers : FillAlertReturn(h)
    \/ Tick

\* the event loop resumes run() when the queue has an item; nothing is
\* assumed about the exchange ever answering a handler
SpecIntake == InitIntake /\ [][NextIntake]_vars /\ WF_vars(IntakeStep)

\* ===================================================== the position limits
\* the engine with fewer slots than handlers: max_open_positions and
\* max_positions_per_game of 1 or 2, signals on two different markets

InitLimits ==
    /\ \E c \in LimitConfigs :
          InitRisk([max_open_positions |-> c[1],
                    max_positions_per_game |-> c[2],
                    max_session_loss_usdc |-> 500,
                    max_total_exposure_usdc |-> 2000,
                    match_cooldown_seconds |-> 1, dedup_window_seconds |-> 2,
                    fee_rate |-> 0, stop_loss_pct |-> 50])
    /\ InitBreaker
    /\ InitEngine
    /\ now = 0
    /\ InitNoStore
    /\ InitNotShutDown
    /\ InitNoTimestamps
    /\ InitNoLimiter
    /\ InitNoQueue

NextLimits ==
    \/ \E h \in Handlers, s \in IntakeSignals : Dispatch(h, s)
    \/ \E h \in Handlers : HandlerStart(h)
    \/ \E h \in Handlers, r \in ShutdownAsks : BestAskReturn(h, r)
    \/ \E h \in Handlers : LockAcquired(h)
    \/ \E h \in Handlers, b \in IntakeBalances : BalanceReturn(h, b)
    \/ \E h \in Handlers : BuyReturn(h)
    \/ \E h \in Handlers : BuyRaise(h)
    \/ \E h \in Handlers : FailAlertReturn(h)
    \/ \E h \in Handlers : FillAlertReturn(h)
    \/ MonitorWake
    \/ \E o \in ShutdownResolutions : MonitorResolution(o)
    \/ \E r \in ShutdownPrices : MonitorPrice(r)
    \/ \E ok \in BOOLEAN : MonitorSell(ok)
    \/ MonitorSellAlertReturn
    \/ MonitorAlertReturn
    \/ Tick

SpecLimits == InitLimits /\ [][NextLimits]_vars

\* ================================================== the monitor's rules
\* The position monitor over positions of two buy prices, recorded with and
\* without a condition_id (record_trade's condition_id defaults to ""), with
\* the stop-loss off or at 50 percent, and prices on both sides of every
\* threshold: 0.95 and 0.05, and the triggers 0.25 and 0.40 of the two buy
\* prices.
MonitorSignals == { s \in Signals : s.token_id \in {"T1", "T3"} }
MonitorPrices ==
    {Raised, RetNone, Price(95), Price(94), Price(5), Price(6),
     Price(24), Price(25), Price(39), Price(40)}
StopLossPcts == {0, 50}

\* a handler's commit: pre_trade_check returns RiskClear and record_trade
\* follows, cid being the condition_id it is called with
PositionOpened(s, price, cid) ==
    /\ pre_trade_check(s.token_id, "market", s.outcome, s.condition_id,
                       1000) = ""
    /\ record_trade(s.token_id, "market", s.outcome, s.condition_id, 1000,
                    price, cid)
    /\ UNCHANGED <<risk_cfg, session_pnl, halted, halt_reason, loss_latched,
                   closes, now, op_vars>>
    /\ LedgerFrame

InitMonitor ==
    /\ \E sl \in StopLossPcts, f \in FeeRates :
          InitRisk([max_open_positions |-> 2, max_positions_per_game |-> 2,
                    max_session_loss_usdc |-> 500,
                    max_total_exposure_usdc |-> 2000,
                    match_cooldown_seconds |-> 1, dedup_window_seconds |-> 2,
                    fee_rate |-> f, stop_loss_pct |-> sl])
    /\ InitBreaker
    /\ InitEngine
    /\ now = 0
    /\ InitNoStore
    /\ InitNotShutDown
    /\ InitNoTimestamps
    /\ InitNoLimiter
    /\ InitNoQueue

NextMonitor ==
    \/ \E s \in MonitorSignals, p \in BuyPrices :
          \E cid \in {"", s.condition_id} : PositionOpened(s, p, cid)
    \/ MonitorWake
    \/ \E o \in ResolutionResults : MonitorResolution(o)
    \/ \E r \in MonitorPrices : MonitorPrice(r)
    \/ \E ok \in BOOLEAN : MonitorSell(ok)
    \/ MonitorSellAlertReturn
    \/ MonitorAlertReturn
    \/ Tick

SpecMonitor == InitMonitor /\ [][NextMonitor]_vars

\* =============================================== the unwritable state file
\* The engine with a state store whose file is, at times, not writable
\* (StateStore.save raises OSError from mkdir, open or replace).

\* the state file becomes unwritable, or writable again
DiskChange ==
    /\ store_fails' = ~store_fails
    /\ UNCHANGED <<saved, saves>>
    /\ UNCHANGED <<risk_vars, cb_vars, engine_vars, now, other_vars>>

InitSaveError ==
    /\ InitRisk([max_open_positions |-> 2, max_positions_per_game |-> 2,
                 max_session_loss_usdc |-> 500,
                 max_total_exposure_usdc |-> 2000,
                 match_cooldown_seconds |-> 1, dedup_window_seconds |-> 2,
                 fee_rate |-> 0, stop_loss_pct |-> 50])
    /\ InitBreaker
    /\ InitEngine
    /\ now = 0
    /\ state_store = TRUE
    /\ saved = NoSnapshot
    /\ saves = 0
    /\ store_fails \in BOOLEAN
    /\ InitNotShutDown
    /\ InitNoTimestamps
    /\ InitNoLimiter
    /\ InitNoQueue

NextSaveError ==
    \/ \E h \in Handlers, s \in IntakeSignals : Dispatch(h, s)
    \/ \E h \in Handlers : HandlerStart(h)
    \/ \E h \in Handlers, r \in ShutdownAsks : BestAskReturn(h, r)
    \/ \E h \in Handlers : LockAcquired(h)
    \/ \E h \in Handlers, b \in IntakeBalances : BalanceReturn(h, b)
    \/ \E h \in Handlers : BuyReturn(h)
    \/ \E h \in Handlers : BuyRaise(h)
    \/ \E h \in Handlers : FailAlertReturn(h)
    \/ \E h \in Handlers : FillAlertReturn(h)
    \/ MonitorWake
    \/ \E o \in ShutdownResolutions : MonitorResolution(o)
    \/ \E r \in ShutdownPrices : MonitorPrice(r)
    \/ \E ok \in BOOLEAN : MonitorSell(ok)
    \/ MonitorSellAlertReturn
    \/ MonitorAlertReturn
    \/ DiskChange

SpecSaveError == InitSaveError /\ [][NextSaveError]_vars

\* ===================================================== the lock, fairly
\* The handlers alone, with an exchange that answers every call sooner or
\* later: each handler's next step is eventually taken.
LockAsks == {Raised, Price(50)}
LockBalances == {400, 1000}

\* a handler is resumed: by the event loop, by an exchange call returning or
\* raising, or by the release of the lock
HandlerStep ==
    \/ \E h \in Handlers : HandlerStart(h)
    \/ \E h \in Handlers, r \in LockAsks : BestAskReturn(h, r)
    \/ \E h \in Handlers : LockAcquired(h)
    \/ \E h \in Handlers, b \in LockBalances : BalanceReturn(h, b)
    \/ \E h \in Handlers : BuyReturn(h)
    \/ \E h \in Handlers : BuyRaise(h)
    \/ \E h \in Handlers : FailAlertReturn(h)
    \/ \E h \in Handlers : FillAlertReturn(h)

NextLock ==
    \/ \E h \in Handlers, s \in IntakeSignals : Dispatch(h, s)
    \/ HandlerStep

SpecLock == InitLimits /\ [][NextLock]_vars /\ WF_vars(HandlerStep)

\* ========================================================== specification
Init ==
    /\ InitRisk([max_open_positions |-> 2, max_positions_per_game |-> 2,
                 max_session_loss_usdc |-> 500,
                 max_total_exposure_usdc |-> 2000,
                 match_cooldown_seconds |-> 1, dedup_window_seconds |-> 2,
                 fee_rate |-> 0, stop_loss_pct |-> 50])
    /\ InitBreaker
    /\ InitEngine
    /\ now = 0
    /\ InitNoStore
    /\ InitNotShutDown
    /\ InitNoTimestamps
    /\ InitNoLimiter
    /\ InitNoQueue

Next ==
    \/ \E h \in Handlers, s \in Signals : Dispatch(h, s)
    \/ \E h \in Handlers : HandlerStart(h)
    \/ \E h \in Handlers, r \in AskResults : BestAskReturn(h, r)
    \/ \E h \in Handlers : LockAcquired(h)
    \/ \E h \in Handlers, b \in BalanceResults : BalanceReturn(h, b)
    \/ \E h \in Handlers : BuyReturn(h)
    \/ \E h \in Handlers : BuyRaise(h)
    \/ \E h \in Handlers : FailAlertReturn(h)
    \/ \E h \in Handlers : FillAlertReturn(h)
    \/ MonitorWake
    \/ \E o \in ResolutionResults : MonitorResolution(o)
    \/ \E r \in PriceResults : MonitorPrice(r)
    \/ \E ok \in BOOLEAN : MonitorSell(ok)
    \/ MonitorSellAlertReturn
    \/ MonitorAlertReturn
    \/ \E a \in EngineSources : AdapterSuccess(a)
    \/ \E a \in EngineSources : AdapterFailure(a)
    \/ RunCallback
    \/ Tick

Spec == Init /\ [][Next]_vars


\* ================================================================= claims
Started == { h \in Handlers : pc[h] # "idle" }
AllDone == \A h \in Handlers : pc[h] = "done"
SameSignal == \A g, h \in Started : opp[g] = opp[h]
\* handlers that have called market_buy
Buyers == { h \in Handlers : "market_buy" \in calls[h] }
Committed == { h \in Handlers : result[h] = "committed" }
\* no market_buy call has raised
OrdersSucceed ==
    \A h \in Handlers : pc[h] # "fail_alert" /\ result[h] # "order_failed"
\* endings a handler can only owe to another handler's trade
StoppedByOtherTrade ==
    {"holding_token", "holding_market", "duplicate", "cooldown", "no_slots"}

\* C1: handlers on identical signals, with no market_buy raising and no
\* position closed meanwhile, never make more than one market_buy call, one
\* Position and one TradeRecord; and once they have all finished, each either
\* committed or stopped only by another handler's trade, there is exactly one
\* market_buy call, one committed Position and one TradeRecord.
C1_OneTradeForIdenticalSignals ==
    (SameSignal /\ OrdersSucceed /\ closes = 0) =>
        /\ Cardinality(Buyers) <= 1
        /\ Len(positions) <= 1
        /\ Len(trades) <= 1
        /\ (/\ AllDone
            /\ \A h \in Handlers : result[h] \in StoppedByOtherTrade \cup {"committed"})
           => /\ Cardinality(Buyers) = 1
              /\ Len(positions) = 1
              /\ Cardinality(Committed) = 1
              /\ Len(trades) = 1

\* all handlers got identical signals and finished; one committed, the others
\* were vetoed for the position it holds
C1_Witness ==
    /\ NumHandlers >= 2
    /\ AllDone /\ SameSignal /\ OrdersSucceed /\ closes = 0
    /\ Cardinality(Committed) = 1
    /\ \A h \in Handlers \ Committed : result[h] = "holding_token"

\* between acquiring the trade lock and leaving the async with block
InLock(h) == pc[h] \in {"balance", "buy", "fail_alert"}
\* pre_trade_check has cleared the trade and record_trade has not run yet
InCheckToRecord(h) == pc[h] \in {"buy", "fail_alert"}

\* C2: at most one handler is between acquiring the trade lock and releasing
\* it, that handler is the holder of the lock, and so at most one handler is
\* between its pre_trade_check and its record_trade (or failure exit) and at
\* most one market_buy is in flight.
C2_OneCriticalSection ==
    /\ \A g, h \in Handlers : InLock(g) /\ InLock(h) => g = h
    /\ \A h \in Handlers : InLock(h) => lock_holder = h
    /\ Cardinality({ h \in Handlers : pc[h] = "buy" }) <= 1

\* one handler awaits market_buy while another one queues for the lock
C2_Witness ==
    \E g, h \in Handlers :
        /\ pc[g] = "buy"
        /\ pc[h] = "lock"
        /\ lock_waiters = <<h>>

\* C3: no two open Positions share a token_id, and no two share a market id
\* (match_id, which the engine sets to the signal's condition_id).
C3_OnePositionPerTokenAndMarket ==
    \A i, j \in 1..Len(positions) :
        i # j => /\ positions[i].token_id # positions[j].token_id
                 /\ positions[i].match_id # positions[j].match_id
                 /\ positions[i].condition_id # positions[j].condition_id

\* a second token of a market that has an open Position was vetoed, after
\* the market's cooldown had run out
C3_Witness ==
    \E h \in Handlers :
        /\ result[h] = "holding_market"
        /\ \E i \in 1..Len(positions) :
              /\ positions[i].match_id = opp[h].condition_id
              /\ positions[i].token_id # opp[h].token_id
              /\ now - positions[i].timestamp >= risk_cfg.match_cooldown_seconds

\* C4: the amounts of the open Positions never add up to more than
\* max_total_exposure_usdc.
C4_ExposureWithinCap ==
    total_exposure <= risk_cfg.max_total_exposure_usdc

\* a trade was vetoed for exposure while Positions were open
C4_Witness ==
    /\ positions # <<>>
    /\ \E h \in Handlers : result[h] = "exposure"


KeyOf(h) == _dedup_key(opp[h].token_id, opp[h].condition_id, opp[h].outcome)
\* handler h commits its trade in this step
Commits(h) == result[h] # "committed" /\ result'[h] = "committed"
\* handler h gets RiskClear from pre_trade_check in this step
Cleared(h) == pc[h] = "balance" /\ pc'[h] = "buy"

\* C5 as stated: no handler whose signal arrived (t0) less than
\* dedup_window_seconds after the last committed trade on its key commits a
\* Position.
C5_AsStated ==
    [][\A h \in Handlers :
        Commits(h) =>
            ~(/\ trade_keys[KeyOf(h)] # NoTime
              /\ trade_keys[KeyOf(h)] <= t0[h]
              /\ t0[h] - trade_keys[KeyOf(h)] < risk_cfg.dedup_window_seconds)]_vars

\* C5 amended: pre_trade_check clears no trade, and no Position is committed,
\* less than dedup_window_seconds after the last committed trade on the same
\* (token, market, outcome) key, whether that Position is open or closed.
C5_NoCommitWithinDedupWindow ==
    [][\A h \in Handlers :
        (Cleared(h) \/ Commits(h)) =>
            \/ trade_keys[KeyOf(h)] = NoTime
            \/ now - trade_keys[KeyOf(h)] >= risk_cfg.dedup_window_seconds]_vars

\* a signal was vetoed as a duplicate of a trade whose Position is closed and
\* whose market cooldown is over
C5_Witness ==
    \E h \in Handlers :
        /\ result[h] = "duplicate"
        /\ closes >= 1
        /\ positions = <<>>
        /\ trade_keys[KeyOf(h)] # NoTime

\* amounts a handler can size an order to
Amounts == { Sizing(b, n) : b \in { c \in BalanceResults : c >= 500 },
                            n \in 1..risk_cfg.max_open_positions }

\* C6: from the record_pnl that brings the session PnL to the loss limit
\* until resume() is called, pre_trade_check vetoes every trade, whatever
\* PnL, closes and halt() calls follow.
C6_VetoAfterSessionLoss ==
    loss_latched =>
        \A s \in Signals, a \in Amounts :
            pre_trade_check(s.token_id, "market", s.outcome, s.condition_id, a) # ""

\* the loss limit was hit, a later gain brought the session PnL back above
\* it, no Position is open, and trading is still vetoed
C6_Witness ==
    /\ loss_latched
    /\ session_pnl > -risk_cfg.max_session_loss_usdc
    /\ positions = <<>>
    /\ closes >= 2

\* handler h takes a step of the order-failure path
FailureStep(h) ==
    \/ pc[h] = "buy" /\ pc'[h] = "fail_alert"
    \/ pc[h] = "fail_alert" /\ pc'[h] = "done"

\* C7: when market_buy raises, the handler's failure path leaves the ledger
\* as it is (positions, dedup keys, cooldowns, session PnL, halt flag and
\* reason), sends one alert, and ends with the lock released, the reject
\* hook called and no TradeRecord appended.
C7_FailedOrderLeavesLedger ==
    [][\A h \in Handlers :
        FailureStep(h) =>
            /\ UNCHANGED <<ledger_vars, trades>>
            /\ alerts'[h] = 1
            /\ pc'[h] = "done" =>
                  /\ lock_holder' # h
                  /\ result'[h] = "order_failed"
                  /\ rejects'[h] = <<opp[h].token_id>>]_vars

\* an order failed, and a later handler on the identical signal passed
\* pre_trade_check and committed its Position
C7_Witness ==
    \E g, h \in Handlers :
        /\ result[g] = "order_failed"
        /\ result[h] = "committed"
        /\ opp[g] = opp[h]
        /\ closes = 0
        /\ Len(positions) = 1

\* C8 as stated: the monitor closes no Position while a handler is between
\* its pre_trade_check and its record_trade. (A close is one step of the
\* monitor, so no handler step falls inside it.)
C8_CloseExcludedFromCriticalSection ==
    [][closes' # closes => \A h \in Handlers : ~InCheckToRecord(h)]_vars

\* C9: a handler that started while the breaker or the ledger was halted has
\* made no exchange call, has committed nothing, and has called the reject
\* hook once with its token_id.
C9_HaltedSignalDiscarded ==
    \A h \in Handlers :
        start_halted[h] =>
            /\ pc[h] = "done"
            /\ calls[h] = {}
            /\ result[h] \in {"blocked_cb", "blocked_risk"}
            /\ rejects[h] = <<opp[h].token_id>>
            /\ alerts[h] = 0

\* one signal was discarded for the breaker's halt and one for the ledger's
C9_Witness ==
    \E g, h \in Handlers :
        /\ start_halted[g] /\ result[g] = "blocked_cb"
        /\ start_halted[h] /\ result[h] = "blocked_risk"

\* C10 as stated: whenever the session PnL is at or below the loss limit the
\* ledger is halted.
C10_LossLimitImpliesHalted ==
    session_pnl <= -risk_cfg.max_session_loss_usdc => halted

\* C11: close_position_with_pnl returns gross = (amount/buy_price)*exit_price
\* - amount, less a fee of fee_rate*gross that is charged only when gross > 0
\* and apply_fees is true; otherwise it returns gross exactly (a close at exit
\* price 0 returns -amount for every fee rate); the session PnL grows by the
\* returned value and the token's Position is gone.
C11_ClosePnlAndFees ==
    [][last_op'.op = "close" =>
        LET pos == FirstPosition(last_op'.arg)
            gross == (pos.amount_usdc * last_op'.price) \div pos.buy_price
                        - pos.amount_usdc
            fee == (risk_cfg.fee_rate * gross) \div 100
        IN /\ last_ret' = IF gross > 0 /\ last_op'.flag THEN gross - fee ELSE gross
           /\ last_op'.price = 0 => last_ret' = -pos.amount_usdc
           /\ session_pnl' = session_pnl + last_ret'
           /\ \A i \in 1..Len(positions') :
                  positions'[i].token_id # last_op'.arg]_vars

\* a winning Position was closed with fees applied at a fee rate above 0, and
\* the fee was taken off the returned PnL
C11_Witness ==
    /\ last_op.op = "close"
    /\ last_op.flag
    /\ last_op.price = 100
    /\ risk_cfg.fee_rate > 0
    /\ last_ret \in {200, 800}
    /\ session_pnl = last_ret

BreakerOp ==
    \/ \E a \in Sources :
          \/ CbRegister(a) \/ CbSuccess(a) \/ CbFailure(a)
          \/ CbHeartbeat(a) \/ CbReconnect(a)
    \/ CbCheckStale
\* sources in a state
InState(s) == { a \in DOMAIN adapters : adapters[a].state = s }

\* C13 as stated: after every operation of the breaker, is_halted is true
\* exactly when fewer than min_healthy_adapters registered sources are Closed.
C13_HaltedIffTooFewHealthy ==
    [][BreakerOp =>
        (global_halt' <=> healthy_count(adapters') < cb_cfg.min_healthy_adapters)]_vars

\* C14: on_halt is scheduled in exactly the steps in which is_halted goes from
\* false to true, on_resume in exactly those in which it goes from true to
\* false, and nothing is scheduled in any other step; the callbacks waiting to
\* run alternate, and the one scheduled last agrees with is_halted.
C14_OneCallbackPerEdge ==
    /\ [][/\ (~global_halt /\ global_halt')
                <=> (cb_tasks' = Append(cb_tasks, "on_halt"))
          /\ (global_halt /\ ~global_halt')
                <=> (cb_tasks' = Append(cb_tasks, "on_resume"))
          /\ (global_halt' = global_halt)
                => \/ cb_tasks' = cb_tasks
                   \/ cb_tasks # <<>> /\ cb_tasks' = Tail(cb_tasks)]_vars
    /\ [](/\ \A i \in 1..(Len(cb_tasks) - 1) : cb_tasks[i] # cb_tasks[i + 1]
          /\ cb_tasks # <<>>
             => (cb_tasks[Len(cb_tasks)] = "on_halt" <=> global_halt))

\* the halt callback has run, the halt was cleared since, and its on_resume is
\* scheduled while a source is still Open
C14_Witness ==
    /\ halted
    /\ halt_reason = "Circuit breaker triggered"
    /\ ~global_halt
    /\ cb_tasks = <<"on_resume">>
    /\ InState("OPEN") # {}

\* C15 as stated: record_failure opens a Closed source exactly when the
\* failures recorded for it since its last recorded success number
\* failure_threshold.
C15_OpensAtThresholdSinceSuccess ==
    [][\A a \in Sources :
        (CbFailure(a) /\ adapters[a].state = "CLOSED") =>
            (adapters'[a].state = "OPEN"
                <=> since_success'[a] = cb_cfg.failure_threshold)]_vars

C17_TwoDownHaltOneBackResumes ==
    /\ [](Cardinality({ a \in InState("OPEN") :
                adapters[a].consecutive_failures >= cb_cfg.failure_threshold }) >= 2
            => global_halt)
    /\ [][\A a \in Sources :
            (/\ CbSuccess(a)
             /\ DOMAIN adapters = Sources
             /\ Cardinality(InState("OPEN")) = 2
             /\ Cardinality(InState("CLOSED")) = 1
             /\ a \in InState("OPEN"))
            => /\ global_halt
               /\ ~global_halt'
               /\ cb_tasks' = Append(cb_tasks, "on_resume")]_vars

\* three sources are registered, one is Open with failure_threshold failures
\* and two are Closed; the halt two Open sources caused has been cleared
C17_Witness ==
    /\ cb_cfg.min_healthy_adapters = 2
    /\ DOMAIN adapters = Sources
    /\ \E a \in Sources :
          /\ InState("OPEN") = {a}
          /\ adapters[a].consecutive_failures = cb_cfg.failure_threshold
          /\ InState("CLOSED") = Sources \ {a}
    /\ halted
    /\ ~global_halt
    /\ cb_tasks = <<"on_resume">>

\* C18: the acquires completed by time t never exceed burst + rate*t, t
\* being the time since the limiter was created (tokens counted in
\* 1/TokenUnit, as _tokens is)
C18_CompletedWithinBudget ==
    rl_calls * TokenUnit <= rl_cfg.burst * TokenUnit + rl_cfg.rate * now

C20_PostedOrderIsRecorded ==
    \A h \in Handlers :
        (pc[h] = "cancelled" /\ h \in order_posted)
            => HasPosition(opp[h].token_id)

\* C21: a handler is created only for the signal at the head of the queue,
\* which leaves the queue in the same step, one handler per signal; and a
\* queue that holds signals is emptied, whatever the handlers created
\* before are doing (holding the trade lock, waiting for the exchange)
C21_EverySignalDispatchedOnce ==
    /\ [][/\ \A h \in Handlers :
                (pc[h] = "idle" /\ pc'[h] # "idle") =>
                    /\ queue # <<>>
                    /\ opp'[h] = Head(queue)
                    /\ queue' = Tail(queue)
                    /\ \A g \in Handlers \ {h} : pc[g] = "idle" => pc'[g] = "idle"
          /\ (Len(queue') < Len(queue)) =>
                \E h \in Handlers : pc[h] = "idle" /\ pc'[h] = "start"]_vars
    /\ (queue # <<>>) ~> (queue = <<>>)

\* the second signal has been dispatched while the first handler holds the
\* trade lock inside market_buy
C21_Witness ==
    /\ queue = <<>>
    /\ lock_holder = 1
    /\ pc[1] = "buy"
    /\ pc[2] = "start"

\* C22: the open Positions never outnumber max_open_positions, and those of
\* one group (game) never outnumber max_positions_per_game
C22_PositionLimits ==
    /\ open_positions <= risk_cfg.max_open_positions
    /\ \A i \in 1..Len(positions) :
          Cardinality({ j \in 1..Len(positions) :
                          positions[j].game = positions[i].game })
             <= risk_cfg.max_positions_per_game

\* with a slot still free, a second trade of the group was vetoed by the
\* per-group limit while the first Position is open
C22_Witness ==
    /\ risk_cfg.max_open_positions = 2
    /\ open_positions = 1
    /\ \E h \in Handlers : result[h] = "max_per_game"

\* C23: the amount a handler passes to market_buy is what OrderSizer.compute
\* returns, under the engine's sizing policy, for the signal's confidence
\* and the ask price
C23_AmountIsSizerOutput ==
    \A h \in Handlers :
        pc[h] = "buy" =>
            \E m \in SizingModes, score \in Scores :
                amount[h] = compute(SizingConfig(m), score, ask[h],
                                    eng_cfg.max_buy_price)

\* amounts pre_trade_check is asked about
CheckAmounts == {1000, 3000}
\* the first veto of a sequence of check results, "" when all are clear
RECURSIVE FirstVeto(_)
FirstVeto(checks) ==
    IF checks = <<>> THEN ""
    ELSE IF Head(checks) # "" THEN Head(checks)
    ELSE FirstVeto(Tail(checks))
\* the checks that fail for a trade in the current state
Failing(s, amt) ==
    (IF halted THEN {"halt"} ELSE {})
    \cup (IF _check_dedup(s.token_id, s.condition_id, s.outcome) # ""
          THEN {"duplicate"} ELSE {})
    \cup (IF _check_cooldown(s.condition_id) # "" THEN {"cooldown"} ELSE {})
    \cup (IF _check_position_limits("market") # "" THEN {"limits"} ELSE {})
    \cup (IF _check_exposure(amt) # "" THEN {"exposure"} ELSE {})
    \cup (IF _check_session_loss # "" THEN {"session_loss"} ELSE {})

\* C24: pre_trade_check returns the veto of the first failing check in the
\* order halt, duplicate (open token, then open market, then recent key),
\* cooldown, position limits (total, then per game), exposure, session loss,
\* and Clear exactly when no check fails
C24_FirstFailingCheck ==
    \A s \in Signals, amt \in CheckAmounts :
        LET r == pre_trade_check(s.token_id, "market", s.outcome,
                                 s.condition_id, amt)
        IN /\ r = FirstVeto(<<IF halted THEN "halted" ELSE "",
                              _check_dedup(s.token_id, s.condition_id, s.outcome),
                              _check_cooldown(s.condition_id),
                              _check_position_limits("market"),
                              _check_exposure(amt),
                              _check_session_loss>>)
           /\ (r = "") <=> (Failing(s, amt) = {})
           /\ (~halted /\ HasPosition(s.token_id)) => r = "holding_token"
           /\ (~halted /\ ~HasPosition(s.token_id)
                 /\ \E i \in 1..Len(positions) :
                        positions[i].match_id = s.condition_id)
                 => r = "holding_market"
           /\ (r = "max_per_game")
                 => open_positions < risk_cfg.max_open_positions

\* a ledger that is not halted, where for one trade the duplicate, cooldown,
\* limit and exposure checks all fail and for another only the later ones
C24_Witness ==
    /\ ~halted
    /\ \E s \in Signals, amt \in CheckAmounts :
          {"duplicate", "cooldown", "limits", "exposure"} \subseteq Failing(s, amt)
    /\ \E s \in Signals, amt \in CheckAmounts :
          Failing(s, amt) = {"limits", "exposure"}

\* the market has an open Position
MarketOpen(m) == \E i \in 1..Len(positions) : positions[i].match_id = m

\* C25: record_trade stamps the market with the time of the trade and no
\* close or restart removes the stamp; while the stamp is younger than
\* match_cooldown_seconds every trade on the market is vetoed, whatever its
\* token and outcome and whether or not the Position is still open; with the
\* window elapsed and the Position closed, the cooldown check passes and a
\* token of the market that was not itself traded recently is cleared
C25_CooldownPerMarket ==
    /\ [][/\ \A s \in Signals :
                (last_op'.op = "record_trade" /\ last_op'.arg = s.token_id
                    /\ last_op' # last_op)
                    => match_cooldowns'[s.condition_id] = now
          /\ last_op'.op \in {"close", "restart", "halt", "resume"}
                    => match_cooldowns' = match_cooldowns]_vars
    /\ [](\A s \in Signals, amt \in TradeAmounts :
            LET last_trade == match_cooldowns[s.condition_id]
                r == pre_trade_check(s.token_id, "market", s.outcome,
                                     s.condition_id, amt)
            IN /\ (last_trade # NoTime
                     /\ now - last_trade < risk_cfg.match_cooldown_seconds)
                     => r # ""
               /\ (last_trade # NoTime /\ ~MarketOpen(s.condition_id)
                     /\ ~halted
                     /\ now - last_trade < risk_cfg.match_cooldown_seconds)
                     => /\ r \in {"duplicate", "cooldown"}
                        /\ _check_dedup(s.token_id, s.condition_id,
                                        s.outcome) = "" => r = "cooldown"
               /\ (last_trade # NoTime /\ ~MarketOpen(s.condition_id)
                     /\ now - last_trade >= risk_cfg.match_cooldown_seconds)
                     => /\ _check_cooldown(s.condition_id) = ""
                        /\ r \notin {"cooldown", "holding_market",
                                     "holding_token"}
                        /\ (trade_keys[_dedup_key(s.token_id, s.condition_id,
                                                  s.outcome)] = NoTime
                              /\ r # "") =>
                                r \in {"halted", "max_open", "max_per_game",
                                       "exposure", "session_loss"})

\* the Position on market M1 was closed within the cooldown window and the
\* market's other token is vetoed by the cooldown
C25_Witness ==
    /\ last_op.op = "close"
    /\ ~halted
    /\ positions = <<>>
    /\ match_cooldowns["M1"] = now
    /\ pre_trade_check("T2", "market", "No", "M1", 1000) = "cooldown"

\* C26: close_position_with_pnl for a token without open Position returns
\* None and leaves the open Positions, the session PnL, the halted flag and
\* its reason, the dedup keys and the cooldowns as they were
C26_CloseMissingChangesNothing ==
    [][last_op'.op = "close_none" =>
        /\ last_ret' = NoPnl
        /\ positions' = positions
        /\ session_pnl' = session_pnl
        /\ halted' = halted
        /\ halt_reason' = halt_reason
        /\ trade_keys' = trade_keys
        /\ match_cooldowns' = match_cooldowns]_vars

\* a token whose Position was closed before is closed again, in a ledger
\* that has another Position open, a loss at the session limit and trading
\* resumed
C26_Witness ==
    /\ last_op.op = "close_none"
    /\ last_ret = NoPnl
    /\ \E s \in Signals :
          /\ s.token_id = last_op.arg
          /\ trade_keys[_dedup_key(s.token_id, s.condition_id, s.outcome)]
                # NoTime
    /\ positions # <<>>
    /\ session_pnl <= -risk_cfg.max_session_loss_usdc
    /\ ~halted

\* the position the monitor is processing
MonPos == mon_snapshot[mon_idx]

\* this step closes the position of the loop at exit_price: its token leaves
\* the ledger and the PnL of the close is added to the session PnL
ClosedAt(exit_price, apply_fees) ==
    /\ HasPosition(MonPos.token_id)
    /\ FirstPosition(MonPos.token_id) = MonPos
    /\ positions' = SelectSeq(positions,
                              LAMBDA p : p.token_id # MonPos.token_id)
    /\ session_pnl' = session_pnl + ClosePnl(MonPos, exit_price, apply_fees)
    /\ mon_pc' = "alert"

\* this step leaves every position open and the session PnL as it was
StaysOpen == positions' = positions /\ session_pnl' = session_pnl

\* C27: for each open Position of a monitor pass: with a condition_id and an
\* official outcome reported it is closed at the price of that outcome (1.0
\* for "yes", else 0.0) and no price is fetched; otherwise a price is
\* fetched, and the Position is closed as a win at >= 0.95, as a loss at
\* <= 0.05, and only when neither holds is the stop-loss rule
\* (stop_loss_pct > 0 and price < buy_price * (1 - stop_loss_pct)) applied;
\* when no rule applies the Position stays open and the session PnL is
\* unchanged.
C27_MonitorRuleOrder ==
    /\ [][ /\ \A o \in ResolutionResults :
                MonitorResolution(o) =>
                    /\ MonPos.condition_id # ""
                    /\ IF o # ""
                       THEN ClosedAt(IF Lower(o) = "yes" THEN 100 ELSE 0, TRUE)
                       ELSE StaysOpen /\ mon_pc' = "price"
           /\ \A r \in MonitorPrices :
                MonitorPrice(r) =>
                    IF r.st = "ok" /\ r.price >= 95
                    THEN ClosedAt(100, TRUE)
                    ELSE IF r.st = "ok" /\ r.price <= 5
                    THEN ClosedAt(0, TRUE)
                    ELSE IF /\ r.st = "ok"
                            /\ risk_cfg.stop_loss_pct > 0
                            /\ r.price * 100
                                 < MonPos.buy_price * (100 - risk_cfg.stop_loss_pct)
                    THEN StaysOpen /\ mon_pc' = "sell" /\ mon_price' = r.price
                    ELSE StaysOpen /\ mon_pc' \notin {"sell", "alert"}
           /\ MonitorSell(TRUE) => ClosedAt(mon_price, FALSE)
         ]_vars
    /\ [](mon_pc = "price" /\ MonPos.condition_id # ""
            => HasPosition(MonPos.token_id))

\* the monitor is at the second position of a pass, just closed by the
\* stop-loss rule at a price between the thresholds, the first position
\* having stayed open
C27_Witness ==
    /\ mon_pc = "alert"
    /\ mon_idx = 2
    /\ positions = <<mon_snapshot[1]>>
    /\ closes = 1
    /\ session_pnl = (1000 * 39) \div 80 - 1000

\* the loop body of the monitor moves on to the Position after the current
\* one, or ends the pass after the last one
NextExamined ==
    IF mon_idx < Len(mon_snapshot)
    THEN /\ mon_idx' = mon_idx + 1
         /\ mon_snapshot' = mon_snapshot
         /\ mon_pc' = IF mon_snapshot[mon_idx + 1].condition_id # ""
                      THEN "resolution" ELSE "price"
    ELSE mon_pc' = "sleep"

\* C28: an error while the monitor processes one Position (best_ask raises,
\* or the stop-loss sale raises) leaves that Position open and the session
\* PnL unchanged, and the pass goes on with the Positions after it, which
\* the same pass can still close.
C28_ErrorSkipsOnePosition ==
    [][ /\ MonitorPrice(Raised) => StaysOpen /\ NextExamined
        /\ MonitorSell(FALSE) => StaysOpen /\ mon_pc' = "sell_alert"
        /\ MonitorSellAlertReturn => StaysOpen /\ NextExamined
        /\ (mon_idx = 2 /\ MonitorPrice(Price(95))) => ClosedAt(100, TRUE)
      ]_vars

\* the stop-loss sale of the first of two Positions has just failed: both
\* are open, nothing is booked, and the second is still to be examined
C28_Witness ==
    /\ mon_pc = "sell_alert"
    /\ mon_idx = 1
    /\ Len(mon_snapshot) = 2
    /\ positions = mon_snapshot
    /\ session_pnl = 0

\* C29: check_stale moves a source to Open only if it is Closed and the time
\* since its last event exceeds stale_data_timeout; Open and HalfOpen
\* sources, and Closed sources with a recent enough event, are left
\* unchanged; the global halt state is re-evaluated whenever at least one
\* source was opened, and left alone otherwise.
C29_CheckStaleOpensOnlyStaleClosed ==
    [][CbCheckStale =>
        LET TooOld(a) == /\ adapters[a].state = "CLOSED"
                         /\ now - cb_times[a] > cb_cfg.stale_data_timeout
        IN /\ DOMAIN adapters' = DOMAIN adapters
           /\ \A a \in DOMAIN adapters :
                 IF TooOld(a)
                 THEN /\ adapters'[a].state = "OPEN"
                      /\ adapters'[a].consecutive_failures
                            = adapters[a].consecutive_failures
                 ELSE adapters'[a] = adapters[a]
           /\ cb_times' = cb_times
           /\ since_success' = since_success
           /\ IF \E a \in DOMAIN adapters : TooOld(a)
              THEN global_halt'
                     <=> healthy_count(adapters') < cb_cfg.min_healthy_adapters
              ELSE global_halt' = global_halt /\ cb_tasks' = cb_tasks
    ]_vars

\* check_stale has opened a source that never failed, past the timeout,
\* while a source with a recent event stayed Closed, and the breaker halted
C29_Witness ==
    /\ global_halt
    /\ \E a, b \in DOMAIN adapters :
          /\ adapters[a].state = "OPEN"
          /\ since_success[a] = 0
          /\ now - cb_times[a] > cb_cfg.stale_data_timeout
          /\ adapters[b].state = "CLOSED"
          /\ now - cb_times[b] <= cb_cfg.stale_data_timeout

\* C30: record_heartbeat changes only the source's last-event time: the
\* state of every source, the failure counters and is_halted are unchanged,
\* so a source that is Open stays Open however many heartbeats it sends.
C30_HeartbeatOnlyStamps ==
    [][\A a \in Sources :
         CbHeartbeat(a) =>
            /\ adapters' = adapters
            /\ since_success' = since_success
            /\ global_halt' = global_halt
            /\ cb_tasks' = cb_tasks
            /\ cb_times'[a] = now
            /\ \A b \in DOMAIN cb_times \ {a} : cb_times'[b] = cb_times[b]
    ]_vars

\* a source opened for staleness has sent a heartbeat since (its last event
\* is of this instant) and is still Open, with the breaker still halted
C30_Witness ==
    /\ now > 0
    /\ global_halt
    /\ \E a \in DOMAIN adapters :
          /\ adapters[a].state = "OPEN"
          /\ since_success[a] = 0
          /\ cb_times[a] = now

\* C31: an exception raised by state_store.save never propagates out of the
\* engine: when the order of a handler is filled while the state file cannot
\* be written, the Position is in the ledger, the TradeRecord is appended and
\* the fill alert is sent, and the Position stays in the ledger until the
\* monitor closes it.
C31_SaveErrorIsSwallowed ==
    /\ [][\A h \in Handlers :
            (BuyReturn(h) /\ store_fails) =>
                /\ \E i \in 1..Len(positions') :
                      /\ positions'[i].token_id = opp[h].token_id
                      /\ positions'[i].amount_usdc = amount[h]
                /\ trades' = Append(trades, TradeInfo(h, positions'))
                /\ alerts'[h] = alerts[h] + 1
                /\ pc'[h] = "fill_alert"
                /\ result'[h] = "committed"
                /\ saved' = saved
       ]_vars
    /\ [](Len(trades) = Len(positions) + closes)
    /\ [](\A h \in Handlers : result[h] \notin {"crashed"})

\* a handler is in the fill alert of its committed trade, the Position and
\* the TradeRecord are there, and the only save so far has failed
C31_Witness ==
    /\ store_fails
    /\ saves = 1
    /\ saved = NoSnapshot
    /\ Len(positions) = 1
    /\ Len(trades) = 1
    /\ \E h \in Handlers :
          /\ pc[h] = "fill_alert"
          /\ result[h] = "committed"
          /\ alerts[h] = 1
          /\ positions[1].token_id = opp[h].token_id

\* C32 as stated: when StateStore.load fails (missing file, invalid JSON, or
\* a snapshot whose fields are malformed) it returns False and the ledger is
\* left in its empty initial state: no part of the snapshot has been applied.
C32_FailedLoadLeavesLedgerEmpty ==
    [][\A f \in StateFiles :
         (StoreLoad(f) /\ last_ret' = 0) =>
            /\ session_pnl' = 0
            /\ ~halted'
            /\ halt_reason' = ""
            /\ positions' = <<>>
            /\ trade_keys' = [k \in DedupKeys |-> NoTime]
            /\ match_cooldowns' = [m \in MatchIds |-> NoTime]
    ]_vars

\* C33: when the on_halt callback of a global halt has run the ledger is
\* halted, when the on_resume callback has run it is not; callbacks run in
\* the order of their edges, so the callback scheduled last is the one of
\* the breaker's present state and, once every scheduled callback has run,
\* the ledger is halted exactly when is_halted.
C33_CallbacksFollowEdges ==
    /\ [][CbCallback =>
            IF Head(cb_tasks) = "on_halt"
            THEN halted' /\ halt_reason' = "Circuit breaker triggered"
            ELSE ~halted']_vars
    /\ [](cb_tasks # <<>> =>
            (cb_tasks[Len(cb_tasks)] = "on_halt" <=> global_halt))
    /\ [](cb_tasks = <<>> => (halted <=> global_halt))

\* a halt edge and a resume edge have both occurred before either callback
\* ran: on_halt is first in line, on_resume second, the breaker is not
\* halted and the ledger does not know of either yet
C33_Witness ==
    /\ cb_tasks = <<"on_halt", "on_resume">>
    /\ ~global_halt
    /\ ~halted

\* C34 as stated: no Position is committed while trading is halted:
\* record_trade is never executed in a state where the ledger is halted or
\* the circuit breaker reports is_halted, also when the halt arrives while
\* the handler is suspended in get_balance or market_buy.
C34_NoCommitWhileHalted ==
    [][\A h \in Handlers : BuyReturn(h) => ~halted /\ ~global_halt]_vars

\* C35 as stated: every signal whose handling ends without a committed
\* Position invokes the on_reject hook exactly once with the signal's
\* token_id, and a signal that results in a committed Position never
\* invokes it.
C35_RejectedExactlyOnce ==
    \A h \in Handlers :
        pc[h] = "done" =>
            IF result[h] = "committed"
            THEN rejects[h] = <<>>
            ELSE rejects[h] = <<opp[h].token_id>>

\* C36 as stated: when the exchange reports an official resolution for a
\* Position's market, the Position is closed as a win (exit price 1.0)
\* exactly when the resolved winning outcome is the outcome the Position
\* holds, and as a loss (exit price 0.0) otherwise.
C36_WinIffHeldOutcomeWon ==
    [][\A o \in ResolutionResults \ {""} :
         MonitorResolution(o) =>
            /\ ~(\E i \in 1..Len(positions') :
                    positions'[i].token_id = MonPos.token_id)
            /\ session_pnl' = session_pnl
                  + ClosePnl(MonPos, IF o = MonPos.team THEN 100 ELSE 0, TRUE)
    ]_vars

\* C37 as stated: if the ledger is halted with session PnL <=
\* -max_session_loss_usdc when a snapshot is taken, the ledger is halted
\* after that snapshot is restored, also when a circuit-breaker halt was
\* recorded (overwriting the halt reason) after the session-loss halt.
C37_LossHaltSurvivesRestart ==
    [][(/\ last_op'.op = "restart"
        /\ halted
        /\ session_pnl <= -risk_cfg.max_session_loss_usdc) => halted']_vars

\* C38: record_failure changes a source's state only when the source is
\* Closed: a failure recorded for a HalfOpen or Open source increments its
\* failure counter and leaves its state and is_halted unchanged, so a
\* HalfOpen source is never returned to Open by a failure.
C38_FailureOpensOnlyClosed ==
    [][\A a \in Sources :
         QueuedFailure(a) =>
            /\ adapters'[a].consecutive_failures
                  = adapters[a].consecutive_failures + 1
            /\ since_success'[a] = since_success[a] + 1
            /\ \A b \in DOMAIN adapters \ {a} : adapters'[b] = adapters[b]
            /\ IF adapters[a].state = "CLOSED"
               THEN adapters'[a].state = "OPEN"
                      <=> adapters'[a].consecutive_failures
                            >= cb_cfg.failure_threshold
               ELSE /\ adapters'[a].state = adapters[a].state
                    /\ global_halt' = global_halt
                    /\ cb_tasks' = cb_tasks
    ]_vars

\* a source that reconnected is HalfOpen and has failed again since: it is
\* still HalfOpen, with a failure counted beyond the threshold
C38_Witness ==
    \E a \in DOMAIN adapters :
        /\ adapters[a].state = "HALF_OPEN"
        /\ adapters[a].consecutive_failures > cb_cfg.failure_threshold

\* C39: the trade lock is released on every exit from the critical section:
\* whoever holds it is suspended inside the section.  Provided every
\* exchange call eventually returns or raises, every handler eventually
\* terminates and every handler waiting for the lock eventually gets it.
C39_LockReleasedAndHandlersEnd ==
    /\ [](\A h \in Handlers :
            lock_holder = h => pc[h] \in {"balance", "buy", "fail_alert"})
    /\ [](\A h \in Handlers : pc[h] = "lock" <=>
            \E i \in 1..Len(lock_waiters) : lock_waiters[i] = h)
    /\ \A h \in Handlers : (pc[h] = "start") ~> (pc[h] = "done")
    /\ \A h \in Handlers : (pc[h] = "lock") ~> (pc[h] # "lock")

\* one handler is suspended in market_buy inside the critical section and
\* the other waits for the lock
C39_Witness ==
    \E g, h \in Handlers :
        /\ lock_holder = g
        /\ pc[g] = "buy"
        /\ pc[h] = "lock"
        /\ lock_waiters = <<h>>

\* C40: with rate > 0 every acquire() call returns in the end; no caller
\* holds the limiter's lock while it sleeps, and a call that finds a token
\* takes it at once whoever else is asleep.
C40_AcquireReturnsAndSleepsUnlocked ==
    /\ \A c \in Callers : (rl_pc[c] = "sleep") ~> (rl_pc[c] = "idle")
    /\ [](rl_cfg.rate > 0 /\ rl_lock = NoCaller)
    /\ [][\A d \in Callers :
            (RlEnter(d) /\ _refill >= TokenUnit)
                => /\ rl_pc'[d] = "idle"
                   /\ rl_calls' = rl_calls + 1
                   /\ rl_tokens' = _refill - TokenUnit]_vars

\* a caller is still asleep, its wait over, and another call made at or
\* after that time has taken the token that became available
C40_Witness ==
    \E c \in Callers :
        /\ rl_pc[c] = "sleep"
        /\ rl_last_refill >= rl_wake[c]
        /\ rl_last_refill > 0
        /\ rl_calls >= 2
        /\ \E d \in Callers \ {c} : rl_pc[d] = "idle"

====
